---- MODULE Spec2Model ----
(***************************************************************************)
(* A model of redhdl's place-and-route search core:                        *)
(*   - redhdl/search/path_search.py   (best-first and iterative-deepening  *)
(*     A* over a PathSearchProblem),                                       *)
(*   - redhdl/bussing/redstone_bussing.py (the redstone wire router: the   *)
(*     step rules of RedstoneBussing.add_step, momentum, costs, the        *)
(*     heuristic, history truncation and the verifying replay),            *)
(*   - redhdl/search/local_search.py  (simulated annealing).               *)
(***************************************************************************)
EXTENDS Integers, Sequences, FiniteSets, TLC

VARIABLES
    problem,            \* the PathSearchProblem / LocalSearchProblem instance
    pc,                 \* position of the running call
    heap,               \* a_star_bfs: next_best_action_heap
    explored_states,    \* a_star_bfs: explored_states
    remaining_steps,    \* a_star_bfs: remaining_steps
    bfs_expansions,     \* a_star_bfs: number of steps expanded so far
    bfs_result,         \* a_star_bfs: "none", "solution" or the error raised
    bfs_solution,       \* a_star_bfs: the Step whose action_sequence is returned
    max_cost,           \* a_star_iddfs: the cost cap of the current pass
    state_min_cost,     \* a_star_iddfs: state_min_cost, kept over all passes
    iddfs_expansions,   \* a_star_iddfs: expansions over all passes of the call
    iddfs_passes,       \* a_star_iddfs: cap, expansions, calls and result of each pass
    iddfs_result,       \* a_star_iddfs: "none", "solution" or the error raised
    iddfs_solution,     \* a_star_iddfs: the Step whose action_sequence is returned
    replay_state,       \* redstone_bussing: state of the verifying replay
    replay_index,       \* redstone_bussing: index of the next step to replay
    bus_result,         \* redstone_bussing: "none", "bussing" or the error raised
    walk,               \* router walk: per visited state, <<min_cost, cost so far>>
    sa,                 \* sim_annealing_searched_solution: its locals
    routing,            \* dest_pin_buses: its locals and the router calls it made
    orders,             \* source_dest_pin_id_seq_pairs: the pairs yielded in two runs
    cache,              \* first_id_cached: func._cache and the calls made so far
    placer              \* BussingPlacementProblem: the placer's annealing run

bfsVars == <<heap, explored_states, remaining_steps, bfs_expansions, bfs_result,
             bfs_solution>>
iddfsVars == <<max_cost, state_min_cost, iddfs_expansions, iddfs_passes,
               iddfs_result, iddfs_solution>>
routerVars == <<replay_state, replay_index, bus_result, walk>>
asmVars == <<routing, orders, cache, placer>>
vars == <<problem, pc, bfsVars, iddfsVars, routerVars, sa, asmVars>>

(***************************************************************************)
(* Numbers.  Costs are floats in the source; the model counts them in      *)
(* 1/CostUnit-ths, so that CostUnit is the float 1 and a cost that is not  *)
(* a multiple of CostUnit is a non-integer cost.                           *)
(***************************************************************************)
CostUnit == 2
Inf == 100000000

Min(a, b) == IF a <= b THEN a ELSE b
Max(a, b) == IF a >= b THEN a ELSE b
Abs(a) == IF a < 0 THEN -a ELSE a

(***************************************************************************)
(* Python's "<" on two actions of a problem: integers for the graph        *)
(* problems, RedstonePathStep named tuples for the router.  Tuples compare *)
(* by their first differing field: next_pos by Pos.__lt__, which holds     *)
(* when every coordinate is smaller, then is_repeater (False < True).  Two *)
(* steps of one state with the same next_pos and kind have the same facing.*)
(***************************************************************************)
PosLt(a, b) == a[1] < b[1] /\ a[2] < b[2] /\ a[3] < b[3]

ActionLt(kind, a, b) ==
    IF kind = "graph" THEN a < b
    ELSE IF a.next_pos # b.next_pos THEN PosLt(a.next_pos, b.next_pos)
    ELSE (~a.is_repeater) /\ b.is_repeater

(***************************************************************************)
(* list.sort as CPython runs it on a list shorter than 64 elements: the    *)
(* initial run is found (and reversed when strictly descending), the rest  *)
(* is inserted by binary insertion.  Only "<" of the elements is used, so  *)
(* the result is defined for any comparison, total or not.                 *)
(***************************************************************************)
RECURSIVE CountRunDesc(_, _, _)
CountRunDesc(s, n, kind) ==
    IF n < Len(s) /\ ActionLt(kind, s[n + 1], s[n]) THEN CountRunDesc(s, n + 1, kind) ELSE n

RECURSIVE CountRunAsc(_, _, _)
CountRunAsc(s, n, kind) ==
    IF n < Len(s) /\ ~ActionLt(kind, s[n + 1], s[n]) THEN CountRunAsc(s, n + 1, kind) ELSE n

Reversed(s) == [i \in 1..Len(s) |-> s[Len(s) + 1 - i]]

RECURSIVE BinarySearch(_, _, _, _, _)
BinarySearch(s, pivot, l, r, kind) ==
    IF l < r
    THEN LET p == l + ((r - l) \div 2)
         IN  IF ActionLt(kind, pivot, s[p]) THEN BinarySearch(s, pivot, l, p, kind)
             ELSE BinarySearch(s, pivot, p + 1, r, kind)
    ELSE l

RECURSIVE BinarySort(_, _, _)
BinarySort(s, start, kind) ==
    IF start > Len(s) THEN s
    ELSE LET pivot == s[start]
             l == BinarySearch(s, pivot, 1, start, kind)
             moved == [i \in 1..Len(s) |->
                          IF i < l \/ i > start THEN s[i]
                          ELSE IF i = l THEN pivot ELSE s[i - 1]]
         IN  BinarySort(moved, start + 1, kind)

PySorted(s, kind) ==
    IF Len(s) < 2 THEN s
    ELSE IF ActionLt(kind, s[2], s[1])
         THEN LET n == CountRunDesc(s, 2, kind)
                  run == Reversed(SubSeq(s, 1, n)) \o SubSeq(s, n + 1, Len(s))
              IN  BinarySort(run, n + 1, kind)
         ELSE BinarySort(s, CountRunAsc(s, 2, kind) + 1, kind)

(***************************************************************************)
(* The PathSearchProblem instances of the generic search: every weighted   *)
(* graph over the nodes 0..3 with the edges below (state = node, action =  *)
(* index of the edge among the node's edges), any cost of 1..MaxCost units *)
(* of 1 / CostUnit per edge, any heuristic value of HeuristicValues per    *)
(* inner node, one of the goal sets, and a max_steps.                      *)
(***************************************************************************)
MaxCost == 4
MaxSteps == 4

GraphNodes == 0..3
GraphEdges == {<<0, 0>>, <<0, 1>>, <<1, 0>>, <<2, 0>>}
EdgeTarget(e) ==
    CASE e = <<0, 0>> -> 1
      [] e = <<0, 1>> -> 2
      [] e = <<1, 0>> -> 2
      [] e = <<2, 0>> -> 3
HeuristicValues == {0, 1, 3}
GoalSets == {{3}, {1, 2}, {}}

GraphProblems ==
    {[kind |-> "graph", cost |-> c, h |-> [n \in GraphNodes |-> IF n = 1 THEN h1
                                                        ELSE IF n = 2 THEN h2 ELSE 0],
      goals |-> g, max_steps |-> m] :
        c \in [GraphEdges -> 1..MaxCost], h1 \in HeuristicValues,
        h2 \in HeuristicValues \ {3}, g \in GoalSets, m \in {0, 2, MaxSteps}}

GraphStateActions(p, state) ==
    IF <<state, 1>> \in GraphEdges THEN <<1, 0>>
    ELSE IF <<state, 0>> \in GraphEdges THEN <<0>> ELSE <<>>

(***************************************************************************)
(* Voxels and directions (redhdl/voxel/region.py).  A Pos is <<x, y, z>>.  *)
(***************************************************************************)
PosAdd(a, b) == <<a[1] + b[1], a[2] + b[2], a[3] + b[3]>>
PosSub(a, b) == <<a[1] - b[1], a[2] - b[2], a[3] - b[3]>>
XZPos(a) == <<a[1], 0, a[3]>>
L1(a) == Abs(a[1]) + Abs(a[2]) + Abs(a[3])
zero_pos == <<0, 0, 0>>

directions == <<"up", "down", "north", "east", "south", "west">>
xz_directions == <<"north", "east", "south", "west">>

direction_unit_pos(d) ==
    CASE d = "west" -> <<-1, 0, 0>>
      [] d = "down" -> <<0, -1, 0>>
      [] d = "north" -> <<0, 0, -1>>
      [] d = "east" -> <<1, 0, 0>>
      [] d = "up" -> <<0, 1, 0>>
      [] d = "south" -> <<0, 0, 1>>

unit_pos_direction(u) == CHOOSE d \in {directions[i] : i \in 1..6} : direction_unit_pos(d) = u

opposite_direction(d) ==
    CASE d = "north" -> "south"
      [] d = "south" -> "north"
      [] d = "up" -> "down"
      [] d = "down" -> "up"
      [] d = "east" -> "west"
      [] d = "west" -> "east"

\* direction_axis_is_pos: the axis (1 = x, 3 = z) and sign of an XZ direction.
direction_axis(d) == IF d \in {"east", "west"} THEN 1 ELSE 3
direction_is_pos(d) == d \in {"east", "south"}
direction_by_axis_is_pos(axis, is_pos) ==
    IF axis = 1 THEN (IF is_pos THEN "east" ELSE "west")
    ELSE (IF is_pos THEN "south" ELSE "north")

Range(s) == {s[i] : i \in DOMAIN s}
Up(p) == PosAdd(p, direction_unit_pos("up"))
Down(p) == PosAdd(p, direction_unit_pos("down"))

(***************************************************************************)
(* RedstoneBussing: element_sig_strengths and repeater_directions are      *)
(* functions on sets of voxels.  The signal strength "repeater" is the     *)
(* number REPEATER, which is no strength of a wire (0..15).                *)
(***************************************************************************)
REPEATER == 16
InitialSignalStrength == 15

EmptyFunction == [x \in {} |-> x]
EmptyBussing ==
    [element_sig_strengths |-> EmptyFunction, repeater_directions |-> EmptyFunction,
     spacer_blocks |-> {}, airspace_blocks |-> {}]

element_blocks(b) == DOMAIN b.element_sig_strengths
foundation_blocks(b) == {Down(wire_pos) : wire_pos \in element_blocks(b)}
transparent_foundation_blocks(b, other_bus_airspace_blocks) ==
    foundation_blocks(b) \cap (other_bus_airspace_blocks \cup b.airspace_blocks)
repeater_blocks(b) == DOMAIN b.repeater_directions
wire_blocks(b) == element_blocks(b) \ repeater_blocks(b)
element_foundation_blocks(b) == element_blocks(b) \cup foundation_blocks(b)
soft_power_sensitive_blocks(b) ==
    {PosSub(r, direction_unit_pos(b.repeater_directions[r])) : r \in repeater_blocks(b)}
hard_power_sensitive_blocks(b) ==
    soft_power_sensitive_blocks(b) \cup wire_blocks(b)
        \cup {PosAdd(w, direction_unit_pos(directions[i])) :
                  w \in wire_blocks(b), i \in 1..6}
hard_powered_blocks(b) ==
    {PosAdd(r, direction_unit_pos(b.repeater_directions[r])) : r \in repeater_blocks(b)}

wire_possible_directions(b, wire_block) ==
    LET directions_with_wire ==
            {d \in Range(xz_directions) :
                \E vert \in {direction_unit_pos("down"), zero_pos, direction_unit_pos("up")} :
                    PosAdd(PosAdd(wire_block, direction_unit_pos(d)), vert) \in wire_blocks(b)}
    IN  IF Cardinality(directions_with_wire) = 0 THEN Range(xz_directions)
        ELSE IF Cardinality(directions_with_wire) = 1
        THEN directions_with_wire \cup {opposite_direction(d) : d \in directions_with_wire}
        ELSE directions_with_wire

soft_powered_blocks(b) ==
    hard_powered_blocks(b) \cup foundation_blocks(b)
        \cup {PosAdd(w, direction_unit_pos(d)) :
                  <<w, d>> \in {<<w2, d2>> \in wire_blocks(b) \X Range(xz_directions) :
                                   d2 \in wire_possible_directions(b, w2)}}

BussingUnion(a, b) ==
    [element_sig_strengths |-> b.element_sig_strengths @@ a.element_sig_strengths,
     repeater_directions |-> b.repeater_directions @@ a.repeater_directions,
     spacer_blocks |-> a.spacer_blocks \cup b.spacer_blocks,
     airspace_blocks |-> a.airspace_blocks \cup b.airspace_blocks]

(***************************************************************************)
(* RedstonePathStep and its next_steps: the wire steps, then the repeater  *)
(* steps, each in the order of the source's comprehensions.                *)
(***************************************************************************)
PathStep(next_pos, is_repeater, facing) ==
    [next_pos |-> next_pos, is_repeater |-> is_repeater, facing |-> facing]

step_from_pos(b, pos) ==
    PathStep(pos, pos \in repeater_blocks(b),
             IF pos \in repeater_blocks(b) THEN b.repeater_directions[pos] ELSE "none")

WireStepDirections == <<"north", "south", "east", "west">>

next_steps(self, transparent_foundation) ==
    LET foundation_soft_powered == ~(self.is_repeater \/ transparent_foundation)
        all_repeater_steps ==
            [i \in 1..8 |->
                LET xz_direction == xz_directions[((i - 1) \div 2) + 1]
                    step_down == ((i - 1) % 2) = 0
                IN  [step |-> PathStep(
                                  PosAdd(PosAdd(self.next_pos, direction_unit_pos(xz_direction)),
                                         IF step_down THEN direction_unit_pos("down")
                                         ELSE zero_pos),
                                  TRUE, xz_direction),
                     keep |-> foundation_soft_powered \/ ~step_down]]
        all_wire_steps ==
            [i \in 1..12 |->
                LET xz_direction == WireStepDirections[((i - 1) \div 3) + 1]
                    elev_change == ((i - 1) % 3) - 1
                IN  [step |-> PathStep(
                                  PosAdd(PosAdd(self.next_pos, direction_unit_pos(xz_direction)),
                                         <<0, elev_change, 0>>),
                                  FALSE, "none"),
                     keep |-> (~transparent_foundation) \/ elev_change # -1]]
        Kept(e) == e.keep
        place_repeater_steps == SelectSeq(all_repeater_steps, Kept)
        place_wire_steps == SelectSeq(all_wire_steps, Kept)
    IN  [i \in 1..(Len(place_wire_steps) + Len(place_repeater_steps)) |->
            (place_wire_steps \o place_repeater_steps)[i].step]

(***************************************************************************)
(* RedstoneBussing.add_step.  The result is [none |-> TRUE, ...] where the *)
(* source returns None, and carries the extended bussing otherwise.        *)
(***************************************************************************)
Rejected == [none |-> TRUE, bussing |-> EmptyBussing]
Accepted(b) == [none |-> FALSE, bussing |-> b]

\* A variant of [COLLISION 1] that forgets the instances' voxels.
preexisting_placement_blocks_of_buses(self, other_buses, instance_points) ==
    element_blocks(other_buses) \cup element_foundation_blocks(other_buses)
        \cup element_blocks(self) \cup element_foundation_blocks(self)

\* [COLLISION 1]: the voxels a new element and its foundation must keep off.
preexisting_placement_blocks(self, other_buses, instance_points) ==
    element_blocks(other_buses) \cup element_foundation_blocks(other_buses)
        \cup element_blocks(self) \cup element_foundation_blocks(self)
        \cup instance_points

\* [CONNECTIVITY 2], [INPUT NOISE 1] part 2: the spacers a step adds.
new_spacer_blocks(self, other_buses, prev_pos, step) ==
    LET xz_neighbor_blocks ==
            {PosAdd(step.next_pos, direction_unit_pos(d)) : d \in Range(xz_directions)}
        prev_was_repeater == prev_pos \in DOMAIN self.repeater_directions
    IN  (IF prev_was_repeater /\ step.next_pos[2] < prev_pos[2]
         THEN {Up(step.next_pos)} ELSE {})
        \cup (IF (~step.is_repeater)
                 /\ \E neighbor \in xz_neighbor_blocks :
                        Up(neighbor) \in wire_blocks(other_buses)
              THEN {Up(step.next_pos)} ELSE {})
        \cup (IF ~step.is_repeater
              THEN {neighbor_block \in xz_neighbor_blocks :
                        Down(neighbor_block) \in wire_blocks(other_buses)}
              ELSE {})

\* [CONNECTIVITY 3]: the airspace a step adds.
new_airspace_blocks(prev_pos, step) ==
    (IF step.next_pos[2] < prev_pos[2] THEN {Up(step.next_pos)} ELSE {})
    \cup (IF step.next_pos[2] > prev_pos[2] THEN {Up(prev_pos)} ELSE {})

\* A variant of [COLLISION 2] that lets every spacer through.
spacer_airspace_conflict_unchecked(airspace_blocks, spacer_blocks) == FALSE

\* [COLLISION 2]: a spacer on an airspace voxel.
spacer_airspace_conflict(airspace_blocks, spacer_blocks) ==
    (airspace_blocks \cap spacer_blocks) # {}

add_step(self, other_buses, instance_points, prev_pos, end_pos, step) ==
    LET xz_neighbor_blocks ==
            {PosAdd(step.next_pos, direction_unit_pos(d)) : d \in Range(xz_directions)}
        neighbor_blocks ==
            {PosAdd(step.next_pos, direction_unit_pos(d)) : d \in Range(directions)}
        above_block == Up(step.next_pos)
        below_block == Down(step.next_pos)
        prev_was_repeater == prev_pos \in DOMAIN self.repeater_directions
        at_end_pos == step.next_pos = end_pos
        placement_blocks == {step.next_pos, below_block}
        any_adjacent_wires ==
            \E xz_neighbor \in xz_neighbor_blocks : \E dy \in {-1, 0, 1} :
                LET neighbor == PosAdd(xz_neighbor, <<0, dy, 0>>)
                IN  /\ neighbor \in wire_blocks(other_buses)
                    /\ (dy # -1 \/ Up(neighbor) \notin other_buses.spacer_blocks)
                    /\ (dy # 1 \/ Up(step.next_pos) \notin other_buses.spacer_blocks)
        any_adjacent_hard_powered_blocks ==
            \E neighbor \in neighbor_blocks : neighbor \in hard_powered_blocks(other_buses)
        any_adjacent_soft_power_sensitive_blocks ==
            \/ \E neighbor \in xz_neighbor_blocks :
                   neighbor \in soft_power_sensitive_blocks(other_buses)
            \/ below_block \in soft_power_sensitive_blocks(other_buses)
        has_noisy_input ==
            PosAdd(step.next_pos, direction_unit_pos(opposite_direction(step.facing)))
                \in soft_powered_blocks(other_buses)
        output_affects_others ==
            PosAdd(step.next_pos, direction_unit_pos(step.facing))
                \in hard_power_sensitive_blocks(other_buses)
        prev_sig_strength == self.element_sig_strengths[prev_pos]
        next_sig_strength ==
            IF step.is_repeater THEN REPEATER
            ELSE IF prev_sig_strength = REPEATER THEN InitialSignalStrength
            ELSE prev_sig_strength - 1
        repeater_directions ==
            IF step.is_repeater
            THEN (step.next_pos :> step.facing) @@ self.repeater_directions
            ELSE self.repeater_directions
        spacer_blocks ==
            self.spacer_blocks \cup new_spacer_blocks(self, other_buses, prev_pos, step)
        airspace_blocks == self.airspace_blocks \cup new_airspace_blocks(prev_pos, step)
    IN  IF (~at_end_pos)
           /\ (placement_blocks
                   \cap preexisting_placement_blocks(self, other_buses, instance_points)) # {}
        THEN Rejected
        ELSE IF (~step.is_repeater)
                /\ (\/ any_adjacent_wires
                    \/ any_adjacent_hard_powered_blocks
                    \/ any_adjacent_soft_power_sensitive_blocks)
        THEN Rejected
        ELSE IF step.is_repeater /\ (has_noisy_input \/ output_affects_others)
        THEN Rejected
        ELSE IF next_sig_strength = 0
        THEN Rejected
        ELSE IF spacer_airspace_conflict(airspace_blocks, spacer_blocks)
        THEN Rejected
        ELSE IF ((foundation_blocks(other_buses) \cup other_buses.spacer_blocks)
                    \cap (new_airspace_blocks(prev_pos, step)
                              \ other_buses.airspace_blocks)) # {}
        THEN Rejected
        ELSE Accepted([element_sig_strengths |->
                           (step.next_pos :> next_sig_strength) @@ self.element_sig_strengths,
                       repeater_directions |-> repeater_directions,
                       spacer_blocks |-> spacer_blocks,
                       airspace_blocks |-> airspace_blocks])

Restrict(f, S) == [x \in (DOMAIN f) \cap S |-> f[x]]

\* A variant of the truncation that forgets how strong the kept wires are.
with_unpowered_history(self, current_pos, previous_pos) ==
    [element_sig_strengths |->
         [pos \in (DOMAIN self.element_sig_strengths) \cap {current_pos, previous_pos} |->
             IF pos \in DOMAIN self.repeater_directions THEN REPEATER ELSE 1],
     repeater_directions |-> Restrict(self.repeater_directions, {current_pos}),
     spacer_blocks |-> self.spacer_blocks \cap {current_pos},
     airspace_blocks |-> self.airspace_blocks \cap {current_pos}]

with_truncated_history(self, current_pos, previous_pos) ==
    [element_sig_strengths |-> Restrict(self.element_sig_strengths, {current_pos, previous_pos}),
     repeater_directions |-> Restrict(self.repeater_directions, {current_pos}),
     spacer_blocks |-> self.spacer_blocks \cap {current_pos},
     airspace_blocks |-> self.airspace_blocks \cap {current_pos}]

(***************************************************************************)
(* Momentum.  An unknown direction (None in the source) is "none".         *)
(***************************************************************************)
momentum_expected_step_poses(xz_direction, y_dir, is_repeater) ==
    LET fwd == direction_unit_pos(xz_direction)
        back == direction_unit_pos(opposite_direction(xz_direction))
        flat_if_repeater == IF is_repeater THEN {fwd} ELSE {}
        all_xz == {direction_unit_pos(d) : d \in Range(xz_directions)}
        y_offset == CASE y_dir \in {"any_up", "straight_up", "slant_up"} -> <<0, 1, 0>>
                      [] y_dir = "flat" -> <<0, 0, 0>>
                      [] y_dir = "slant_down" -> <<0, -1, 0>>
    IN  IF xz_direction # "none"
        THEN CASE y_dir = "none" ->
                      {PosAdd(fwd, <<0, 1, 0>>), PosAdd(fwd, <<0, 0, 0>>), PosAdd(fwd, <<0, -1, 0>>)}
               [] y_dir = "any_up" ->
                      {PosAdd(back, <<0, 1, 0>>), PosAdd(fwd, <<0, 1, 0>>)} \cup flat_if_repeater
               [] y_dir = "straight_up" -> {PosAdd(back, <<0, 1, 0>>)} \cup flat_if_repeater
               [] y_dir = "slant_up" -> {PosAdd(fwd, <<0, 1, 0>>)} \cup flat_if_repeater
               [] y_dir = "flat" -> {fwd}
               [] y_dir = "slant_down" -> {PosAdd(fwd, <<0, -1, 0>>)}
        ELSE IF y_dir # "none"
        THEN {PosAdd(y_offset, u) : u \in all_xz} \cup (IF is_repeater THEN all_xz ELSE {})
        ELSE {PosAdd(y, u) : y \in {<<0, -1, 0>>, <<0, 0, 0>>, <<0, 1, 0>>}, u \in all_xz}

NoneState ==
    [none |-> TRUE, current_position |-> zero_pos, current_bussing |-> EmptyBussing,
     momentum_xz_dir |-> "none", momentum_y_dir |-> "none"]
PartialBus(current_position, current_bussing, momentum_xz_dir, momentum_y_dir) ==
    [none |-> FALSE, current_position |-> current_position,
     current_bussing |-> current_bussing,
     momentum_xz_dir |-> momentum_xz_dir, momentum_y_dir |-> momentum_y_dir]

next_momentum_xy_z_and_momentum_broken(state, action) ==
    LET step == PosSub(action.next_pos, state.current_position)
        step_xz_dir == unit_pos_direction(XZPos(step))
        step_y_dir == CASE step[2] = 1 -> "any_up"
                        [] step[2] = 0 -> "flat"
                        [] step[2] = -1 -> "slant_down"
        momentum_broken ==
            step \notin momentum_expected_step_poses(
                            state.momentum_xz_dir, state.momentum_y_dir, action.is_repeater)
        momentum_y_dir ==
            IF momentum_broken THEN step_y_dir
            ELSE IF step_y_dir = "any_up"
            THEN IF state.momentum_y_dir # "none" /\ state.momentum_y_dir # "any_up"
                 THEN state.momentum_y_dir
                 ELSE IF state.momentum_xz_dir = "none" THEN "any_up"
                 ELSE IF state.momentum_xz_dir = step_xz_dir THEN "slant_up"
                 ELSE "straight_up"
            ELSE IF action.is_repeater THEN state.momentum_y_dir
            ELSE step_y_dir
    IN  [momentum_xz_dir |-> step_xz_dir, momentum_y_dir |-> momentum_y_dir,
         momentum_broken |-> momentum_broken]

BoolInt(b) == IF b THEN 1 ELSE 0

min_xz_turns(distance_vector, start_xz_momentum, end_xz_momentum) ==
    IF XZPos(distance_vector) = zero_pos THEN 0
    ELSE IF distance_vector[1] = 0 \/ distance_vector[3] = 0
    THEN LET required_direction ==
                 IF distance_vector[1] # 0
                 THEN direction_by_axis_is_pos(1, distance_vector[1] > 0)
                 ELSE direction_by_axis_is_pos(3, distance_vector[3] > 0)
         IN  BoolInt(start_xz_momentum # "none" /\ start_xz_momentum # required_direction)
               + BoolInt(end_xz_momentum # "none" /\ end_xz_momentum # required_direction)
    ELSE IF start_xz_momentum = end_xz_momentum /\ start_xz_momentum # "none" THEN 2
    ELSE 1
         + BoolInt(start_xz_momentum # "none"
                   /\ (distance_vector[direction_axis(start_xz_momentum)] > 0)
                          # direction_is_pos(start_xz_momentum))
         + BoolInt(end_xz_momentum # "none"
                   /\ (distance_vector[direction_axis(end_xz_momentum)] > 0)
                          # direction_is_pos(end_xz_momentum))

min_y_turns(distance_vector, start_y_momentum) ==
    LET horizontal_distance == L1(XZPos(distance_vector))
        distance_down == -distance_vector[2]
    IN  IF distance_down > horizontal_distance THEN 1 ELSE 0

(***************************************************************************)
(* RedstonePathFindingProblem.  A problem p carries start_pos, end_pos,    *)
(* start_xz_dir, end_xz_dir, instance_points, other_buses, and             *)
(* truncate_history (history_limit is 1 during the search and None during  *)
(* the verifying replay).                                                  *)
(***************************************************************************)
early_repeater_cost == 12
momentum_break_cost == 3
NoneMinCost == 100000
RepeaterHeightPeriod == 16

RouterInitialState(p) ==
    PartialBus(p.start_pos,
               [EmptyBussing EXCEPT
                    !.element_sig_strengths = (p.start_pos :> InitialSignalStrength)],
               p.start_xz_dir, "none")

RouterStateActions(p, state) ==
    IF state.none THEN <<>>
    ELSE next_steps(step_from_pos(state.current_bussing, state.current_position),
                    state.current_position
                        \in transparent_foundation_blocks(state.current_bussing,
                                                          p.other_buses.airspace_blocks))

RouterStateActionResult(p, state, action) ==
    IF state.none THEN NoneState
    ELSE LET m == next_momentum_xy_z_and_momentum_broken(state, action)
             next_bussing == add_step(state.current_bussing, p.other_buses, p.instance_points,
                                      state.current_position, p.end_pos, action)
         IN  IF next_bussing.none THEN NoneState
             ELSE PartialBus(action.next_pos,
                             IF p.truncate_history
                             THEN with_truncated_history(next_bussing.bussing, action.next_pos,
                                                         state.current_position)
                             ELSE next_bussing.bussing,
                             m.momentum_xz_dir, m.momentum_y_dir)

RouterStateActionCost(p, state, action) ==
    IF state.none THEN 0
    ELSE LET sig_strength == state.current_bussing.element_sig_strengths[state.current_position]
             m == next_momentum_xy_z_and_momentum_broken(state, action)
             momentum_didnt_match_at_end_pos ==
                 /\ action.next_pos = p.end_pos
                 /\ p.end_xz_dir # "none"
                 /\ p.end_xz_dir # m.momentum_xz_dir
         IN  1
             + (IF action.is_repeater /\ (sig_strength = REPEATER \/ sig_strength > 1)
                THEN early_repeater_cost ELSE 0)
             + (IF m.momentum_broken \/ momentum_didnt_match_at_end_pos
                THEN momentum_break_cost ELSE 0)

RouterIsGoalState(p, state) ==
    /\ ~state.none
    /\ state.current_position = p.end_pos
    /\ state.current_position \notin DOMAIN state.current_bussing.repeater_directions

RouterMinCost(p, state) ==
    IF state.none THEN NoneMinCost
    ELSE LET distance_vector == PosSub(p.end_pos, state.current_position)
             y_distance == Abs(distance_vector[2])
                               + (Abs(distance_vector[2]) \div RepeaterHeightPeriod)
             xz_distance == L1(XZPos(distance_vector))
             min_steps == Max(xz_distance, y_distance)
             min_turns_xz == min_xz_turns(distance_vector, state.momentum_xz_dir, p.end_xz_dir)
             min_turns_y == min_y_turns(distance_vector, state.momentum_y_dir)
             min_momentum_breaks == Max(min_turns_xz, min_turns_y)
         IN  min_steps + min_momentum_breaks * momentum_break_cost

(***************************************************************************)
(* PathSearchProblem: the six methods a search calls on its problem.       *)
(***************************************************************************)
InitialState(p) == IF p.kind = "graph" THEN 0 ELSE RouterInitialState(p)

StateActions(p, state) ==
    IF p.kind = "graph" THEN GraphStateActions(p, state) ELSE RouterStateActions(p, state)

StateActionResult(p, state, action) ==
    IF p.kind = "graph" THEN EdgeTarget(<<state, action>>)
    ELSE RouterStateActionResult(p, state, action)

\* Costs are counted in units of 1 / CostUnit.
StateActionCost(p, state, action) ==
    IF p.kind = "graph" THEN p.cost[<<state, action>>]
    ELSE CostUnit * RouterStateActionCost(p, state, action)

IsGoalState(p, state) ==
    IF p.kind = "graph" THEN state \in p.goals ELSE RouterIsGoalState(p, state)

MinCost(p, state) ==
    IF p.kind = "graph" THEN p.h[state] ELSE CostUnit * RouterMinCost(p, state)

(***************************************************************************)
(* Step: a node of the search tree.  parent_step and action are kept as    *)
(* the action sequence from the root, which is what action_sequence()      *)
(* reads off the parent chain.  Steps compare by min_cost alone.           *)
(***************************************************************************)
InitialStep(state) == [state |-> state, path |-> <<>>, cost |-> 0, min_cost |-> 0]

ActionSequence(step) == step.path

NextSteps(p, step) ==
    LET actions == PySorted(StateActions(p, step.state), p.kind)
    IN  [i \in 1..Len(actions) |->
            LET action == actions[i]
                next_state == StateActionResult(p, step.state, action)
                next_cost == step.cost + StateActionCost(p, step.state, action)
            IN  [state |-> next_state,
                 path |-> Append(step.path, action),
                 cost |-> next_cost,
                 min_cost |-> next_cost + MinCost(p, next_state)]]

StepLt(a, b) == a.min_cost < b.min_cost

(***************************************************************************)
(* heapq.heappush and heapq.heappop on a list (positions count from 0, as  *)
(* in heapq; the sequence holds position i at index i + 1).                *)
(***************************************************************************)
RECURSIVE HeapSiftDownLoop(_, _, _, _)
HeapSiftDownLoop(h, newitem, startpos, pos) ==
    IF pos > startpos
    THEN LET parentpos == (pos - 1) \div 2
             parent == h[parentpos + 1]
         IN  IF StepLt(newitem, parent)
             THEN HeapSiftDownLoop([h EXCEPT ![pos + 1] = parent], newitem, startpos,
                                   parentpos)
             ELSE [h EXCEPT ![pos + 1] = newitem]
    ELSE [h EXCEPT ![pos + 1] = newitem]

HeapSiftDown(h, startpos, pos) == HeapSiftDownLoop(h, h[pos + 1], startpos, pos)

RECURSIVE HeapSiftUpLoop(_, _, _, _)
HeapSiftUpLoop(h, newitem, startpos, pos) ==
    LET endpos == Len(h)
        childpos == 2 * pos + 1
        rightpos == childpos + 1
        smaller == IF rightpos < endpos /\ ~StepLt(h[childpos + 1], h[rightpos + 1])
                   THEN rightpos ELSE childpos
    IN  IF childpos < endpos
        THEN HeapSiftUpLoop([h EXCEPT ![pos + 1] = h[smaller + 1]], newitem, startpos,
                            smaller)
        ELSE HeapSiftDown([h EXCEPT ![pos + 1] = newitem], startpos, pos)

HeapPush(h, item) == HeapSiftDown(Append(h, item), 0, Len(h))

HeapPop(h) ==
    LET lastelt == h[Len(h)]
        rest == SubSeq(h, 1, Len(h) - 1)
    IN  IF Len(rest) > 0
        THEN [item |-> rest[1],
              heap |-> HeapSiftUpLoop([rest EXCEPT ![1] = lastelt], lastelt, 0, 0)]
        ELSE [item |-> lastelt, heap |-> rest]

RECURSIVE HeapPushAll(_, _, _)
HeapPushAll(h, steps, i) ==
    IF i > Len(steps) THEN h ELSE HeapPushAll(HeapPush(h, steps[i]), steps, i + 1)

(***************************************************************************)
(* a_star_bfs_searched_solution: one action per iteration of its while     *)
(* loop, and one for the loop's else branch.                               *)
(***************************************************************************)
\* Where the caller of a_star_bfs_searched_solution goes on.
AfterBfs == IF problem.kind = "graph" THEN "iddfs" ELSE "searched"

BfsInit ==
    /\ heap = <<InitialStep(InitialState(problem))>>
    /\ explored_states = {}
    /\ remaining_steps = problem.max_steps
    /\ bfs_expansions = 0
    /\ bfs_result = "none"
    /\ bfs_solution = InitialStep(InitialState(problem))

BfsIteration ==
    /\ pc = "bfs"
    /\ Len(heap) > 0 /\ remaining_steps > 0
    /\ LET popped == HeapPop(heap)
           step == popped.item
       IN  IF step.state \in explored_states
           THEN /\ heap' = popped.heap
                /\ UNCHANGED <<pc, explored_states, remaining_steps, bfs_expansions,
                               bfs_result, bfs_solution>>
           ELSE IF IsGoalState(problem, step.state)
           THEN /\ heap' = popped.heap
                /\ bfs_result' = "solution"
                /\ bfs_solution' = step
                /\ pc' = AfterBfs
                /\ UNCHANGED <<explored_states, remaining_steps, bfs_expansions>>
           ELSE /\ explored_states' = explored_states \cup {step.state}
                /\ heap' = HeapPushAll(popped.heap, NextSteps(problem, step), 1)
                /\ remaining_steps' = remaining_steps - 1
                /\ bfs_expansions' = bfs_expansions + 1
                /\ UNCHANGED <<pc, bfs_result, bfs_solution>>
    /\ UNCHANGED <<problem, iddfsVars, routerVars, sa, asmVars>>

\* A variant of the loop's else branch that blames the step budget alone.
BfsFailureByBudget(next_best_action_heap) == "SearchTimeoutError"

\* The else branch of the loop: which error the search ends with.
BfsFailure(next_best_action_heap) ==
    IF Len(next_best_action_heap) > 0 THEN "SearchTimeoutError" ELSE "NoSolutionError"

BfsExhausted ==
    /\ pc = "bfs"
    /\ ~(Len(heap) > 0 /\ remaining_steps > 0)
    /\ bfs_result' = BfsFailure(heap)
    /\ pc' = AfterBfs
    /\ UNCHANGED <<problem, heap, explored_states, remaining_steps, bfs_expansions,
                   bfs_solution, iddfsVars, routerVars, sa, asmVars>>

(***************************************************************************)
(* a_star_iddfs_searched_solution.  subtree_solution_should_continue is    *)
(* the recursive operator Subtree; ctx carries what the closure shares     *)
(* between calls: state_min_cost, steps_remaining and the expansions made. *)
(* A min_cost of None is Inf: the caller only ever takes minima of it.     *)
(***************************************************************************)
MaxCostLimit == 100000
InitialMaxCost == 1
MaxCostIncrement == 1

MemoGet(memo, state) == IF state \in DOMAIN memo THEN memo[state] ELSE Inf

SubtreeReturn(solution, found, should_continue, min_cost, ctx) ==
    [solution |-> solution, found |-> found, should_continue |-> should_continue,
     min_cost |-> min_cost, timeout |-> FALSE, ctx |-> ctx]

\* A variant of the pruning test that also prunes a re-entry at equal cost.
PrunedNotBetter(cost, prev_min_cost) == cost >= prev_min_cost

\* if step.cost > prev_min_cost: the re-entries that are pruned.
Pruned(cost, prev_min_cost) == cost > prev_min_cost

\* One call of subtree_solution_should_continue, as the pass records it.
SubtreeCall(step, prev_min_cost, cap) ==
    [state |-> step.state, cost |-> step.cost, min_cost |-> step.min_cost,
     prev_min_cost |-> prev_min_cost,
     pruned |-> Pruned(step.cost, prev_min_cost), max_cost |-> cap]

RECURSIVE Subtree(_, _, _, _)
RECURSIVE SubtreeChildren(_, _, _, _, _, _, _)

Subtree(p, step, cap, ctx0) ==
    LET ctx == [ctx0 EXCEPT !.calls =
                    Append(@, SubtreeCall(step, MemoGet(ctx0.state_min_cost, step.state), cap))]
    IN
    IF Pruned(step.cost, MemoGet(ctx.state_min_cost, step.state))
    THEN SubtreeReturn(step, FALSE, FALSE, Inf, ctx)
    ELSE LET ctx1 == [ctx EXCEPT !.state_min_cost = (step.state :> step.cost) @@ @]
         IN  IF step.min_cost > cap
             THEN SubtreeReturn(step, FALSE, TRUE, step.min_cost, ctx1)
             ELSE IF IsGoalState(p, step.state)
             THEN SubtreeReturn(step, TRUE, FALSE, Inf, ctx1)
             ELSE IF ctx1.steps_remaining = 0
             THEN [SubtreeReturn(step, FALSE, FALSE, Inf, ctx1) EXCEPT !.timeout = TRUE]
             ELSE SubtreeChildren(p, NextSteps(p, step), 1, cap,
                                  [ctx1 EXCEPT !.steps_remaining = @ - 1,
                                               !.expansions = @ + 1],
                                  FALSE, Inf)

SubtreeChildren(p, children, i, cap, ctx, any_should_continue, least_min_cost) ==
    IF i > Len(children)
    THEN SubtreeReturn(InitialStep(InitialState(p)), FALSE, any_should_continue,
                       least_min_cost, ctx)
    ELSE LET r == Subtree(p, children[i], cap, ctx)
         IN  IF r.timeout \/ r.found THEN r
             ELSE SubtreeChildren(p, children, i + 1, cap, r.ctx,
                                  any_should_continue \/ r.should_continue,
                                  Min(least_min_cost, r.min_cost))

IddfsInit ==
    /\ max_cost = CostUnit * InitialMaxCost
    /\ state_min_cost = EmptyFunction
    /\ iddfs_expansions = 0
    /\ iddfs_passes = <<>>
    /\ iddfs_result = "none"
    /\ iddfs_solution = InitialStep(InitialState(problem))

\* One turn of the `while max_cost < 100_000` loop, or its else branch.
IddfsPass ==
    /\ pc = "iddfs"
    /\ IF max_cost < CostUnit * MaxCostLimit
       THEN LET r == Subtree(problem, InitialStep(InitialState(problem)), max_cost,
                             [state_min_cost |-> state_min_cost,
                              steps_remaining |-> problem.max_steps,
                              expansions |-> 0, calls |-> <<>>])
            IN  /\ state_min_cost' = r.ctx.state_min_cost
                /\ iddfs_expansions' = iddfs_expansions + r.ctx.expansions
                /\ iddfs_passes' = Append(iddfs_passes,
                                          [max_cost |-> max_cost,
                                           expansions |-> r.ctx.expansions,
                                           calls |-> r.ctx.calls,
                                           exhausted |-> ~r.timeout /\ ~r.found,
                                           min_cost |-> r.min_cost])
                /\ IF r.timeout
                   THEN /\ iddfs_result' = "SearchTimeoutError"
                        /\ pc' = "done"
                        /\ UNCHANGED <<max_cost, iddfs_solution>>
                   ELSE IF r.found
                   THEN /\ iddfs_result' = "solution"
                        /\ iddfs_solution' = r.solution
                        /\ pc' = "done"
                        /\ UNCHANGED max_cost
                   ELSE IF ~r.should_continue
                   THEN /\ iddfs_result' = "NoSolutionError"
                        /\ pc' = "done"
                        /\ UNCHANGED <<max_cost, iddfs_solution>>
                   ELSE /\ max_cost' = Max(max_cost + CostUnit * MaxCostIncrement, r.min_cost)
                        /\ UNCHANGED <<pc, iddfs_result, iddfs_solution>>
       ELSE /\ iddfs_result' = "SearchTimeoutError"
            /\ pc' = "done"
            /\ UNCHANGED <<max_cost, state_min_cost, iddfs_expansions, iddfs_passes,
                           iddfs_solution>>
    /\ UNCHANGED <<problem, bfsVars, routerVars, sa, asmVars>>

(***************************************************************************)
(* The searches on the graph problems: a_star_bfs_searched_solution and    *)
(* then a_star_iddfs_searched_solution, each called once on the problem.   *)
(***************************************************************************)
RouterIdle ==
    /\ replay_state = NoneState
    /\ replay_index = 0
    /\ bus_result = "none"
    /\ walk = <<>>

SaIdle == sa = [phase |-> "idle"]

AsmIdle ==
    /\ routing = [phase |-> "idle"]
    /\ orders = [phase |-> "idle"]
    /\ cache = [phase |-> "idle"]
    /\ placer = [phase |-> "idle"]

SearchIdle ==
    /\ heap = <<>>
    /\ explored_states = {}
    /\ remaining_steps = 0
    /\ bfs_expansions = 0
    /\ bfs_result = "none"
    /\ bfs_solution = InitialStep(0)
    /\ max_cost = 0
    /\ state_min_cost = EmptyFunction
    /\ iddfs_expansions = 0
    /\ iddfs_passes = <<>>
    /\ iddfs_result = "none"
    /\ iddfs_solution = InitialStep(0)

SearchInit ==
    /\ problem \in GraphProblems
    /\ pc = "bfs"
    /\ BfsInit
    /\ IddfsInit
    /\ RouterIdle
    /\ SaIdle
    /\ AsmIdle

SearchNext == BfsIteration \/ BfsExhausted \/ IddfsPass

SpecSearch == SearchInit /\ [][SearchNext]_vars

(***************************************************************************)
(* redstone_bussing: the best-first search over history-truncated states,  *)
(* the conversion of its errors, and the verifying replay of the actions   *)
(* it found against the whole bussing (history_limit = None).              *)
(***************************************************************************)
RECURSIVE Replay(_, _, _, _)
Replay(p, state, steps, i) ==
    IF i > Len(steps) THEN [state |-> state, index |-> i]
    ELSE LET next == RouterStateActionResult(p, state, steps[i])
         IN  IF next.none THEN [state |-> next, index |-> i]
             ELSE Replay(p, next, steps, i + 1)

\* A variant of the except clauses that lets the search's error through.
BussingErrorUnconverted(search_error) == search_error

\* The except clauses: the BussingError raised for an error of the search.
BussingErrorOf(search_error) ==
    CASE search_error = "SearchTimeoutError" -> "BussingTimeoutError"
      [] search_error = "NoSolutionError" -> "BussingImpossibleError"

\* Where the caller of redstone_bussing goes on.
AfterRouter == IF routing.phase = "idle" THEN "done" ELSE "routed"

RedstoneBussingFinish ==
    /\ pc = "searched"
    /\ pc' = AfterRouter
    /\ IF bfs_result \in {"SearchTimeoutError", "NoSolutionError"}
       THEN /\ bus_result' = BussingErrorOf(bfs_result)
            /\ UNCHANGED <<replay_state, replay_index>>
       ELSE LET full == [problem EXCEPT !.truncate_history = FALSE]
                r == Replay(full, RouterInitialState(full), ActionSequence(bfs_solution), 1)
            IN  /\ replay_state' = r.state
                /\ replay_index' = r.index
                /\ bus_result' = IF r.state.none THEN "BussingLogicError" ELSE "returned"
    /\ UNCHANGED <<problem, bfsVars, iddfsVars, walk, sa, asmVars>>

(***************************************************************************)
(* The routing problems.  The obstacles (instance_points) are the walls of *)
(* a closed box around the free voxels BoxLo..BoxHi, two voxels thick, and *)
(* any one of ObstacleSets inside it; a wire is routed from any free voxel *)
(* to any other.  TunnelProblem is a straight closed tunnel TunnelLength   *)
(* voxels long.                                                            *)
(***************************************************************************)
BoxWalls(lo, hi) ==
    {pos \in ((lo[1] - 2)..(hi[1] + 2)) \X ((lo[2] - 3)..(hi[2] + 2)) \X ((lo[3] - 2)..(hi[3] + 2)) :
        ~(/\ lo[1] <= pos[1] /\ pos[1] <= hi[1]
          /\ lo[2] - 1 <= pos[2] /\ pos[2] <= hi[2]
          /\ lo[3] <= pos[3] /\ pos[3] <= hi[3])}

BoxCells(lo, hi) == (lo[1]..hi[1]) \X (lo[2]..hi[2]) \X (lo[3]..hi[3])

\* A variant of the problem that leaves the instances' voxels out.
RouterProblemUnobstructed(start_pos, end_pos, start_xz_dir, end_xz_dir, instance_points, other_buses, max_steps) ==
    [kind |-> "router", start_pos |-> start_pos, end_pos |-> end_pos,
     start_xz_dir |-> start_xz_dir, end_xz_dir |-> end_xz_dir,
     instance_points |-> {}, other_buses |-> other_buses,
     truncate_history |-> TRUE, max_steps |-> max_steps]

RouterProblem(start_pos, end_pos, start_xz_dir, end_xz_dir, instance_points, other_buses, max_steps) ==
    [kind |-> "router", start_pos |-> start_pos, end_pos |-> end_pos,
     start_xz_dir |-> start_xz_dir, end_xz_dir |-> end_xz_dir,
     instance_points |-> instance_points, other_buses |-> other_buses,
     truncate_history |-> TRUE, max_steps |-> max_steps]

BoxLo == <<0, 0, 0>>
BoxHi == <<1, 2, 1>>
ObstacleSets ==
    {{}, {<<0, 2, 1>>, <<1, 1, 0>>, <<1, 1, 1>>}, {<<1, 0, 1>>, <<0, 0, 0>>}}
HintPairs == {<<"none", "none">>, <<"east", "east">>}
RouterMaxSteps == 16
TunnelLength == 16

BoxProblems ==
    {RouterProblem(s, e, hints[1], hints[2], BoxWalls(BoxLo, BoxHi) \cup obs,
                   EmptyBussing, RouterMaxSteps) :
        s \in BoxCells(BoxLo, BoxHi), e \in BoxCells(BoxLo, BoxHi),
        obs \in ObstacleSets, hints \in HintPairs}

TunnelProblem ==
    RouterProblem(<<0, 0, 0>>, <<0, 0, TunnelLength - 1>>, "south", "none",
                  BoxWalls(<<0, 0, 0>>, <<0, 0, TunnelLength>>), EmptyBussing,
                  TunnelLength + 4)

RouterProblems == BoxProblems \cup {TunnelProblem}

RouterInit ==
    /\ problem \in RouterProblems
    /\ pc = "bfs"
    /\ BfsInit
    /\ IddfsInit
    /\ RouterIdle
    /\ SaIdle
    /\ AsmIdle

RouterNext == BfsIteration \/ BfsExhausted \/ RedstoneBussingFinish

SpecRouter == RouterInit /\ [][RouterNext]_vars

(***************************************************************************)
(* What the claims about the searches speak of: the cost of an action      *)
(* sequence, the state it leads to, the least cost of reaching a goal, and *)
(* admissibility and consistency of min_cost.                              *)
(***************************************************************************)
RECURSIVE SequenceCost(_, _, _, _)
SequenceCost(p, state, path, i) ==
    IF i > Len(path) THEN 0
    ELSE StateActionCost(p, state, path[i])
             + SequenceCost(p, StateActionResult(p, state, path[i]), path, i + 1)

RECURSIVE SequenceEnd(_, _, _, _)
SequenceEnd(p, state, path, i) ==
    IF i > Len(path) THEN state
    ELSE SequenceEnd(p, StateActionResult(p, state, path[i]), path, i + 1)

SetMin(S) == IF S = {} THEN Inf ELSE CHOOSE x \in S : \A y \in S : x <= y

RECURSIVE TrueCost(_, _)
TrueCost(p, n) ==
    IF n \in p.goals THEN 0
    ELSE Min(Inf, SetMin({p.cost[<<n, a>>] + TrueCost(p, EdgeTarget(<<n, a>>)) :
                              a \in Range(GraphStateActions(p, n))}))

Admissible(p) == \A n \in GraphNodes : p.h[n] <= TrueCost(p, n)

Consistent(p) ==
    /\ \A n \in p.goals : p.h[n] = 0
    /\ \A e \in GraphEdges : p.h[e[1]] <= p.cost[e] + p.h[EdgeTarget(e)]

BfsFailed == bfs_result \in {"SearchTimeoutError", "NoSolutionError"}

(***************************************************************************)
(* C6, as stated: when the best-first search fails, it fails with          *)
(* SearchTimeoutError if max_steps expansions have been performed, and     *)
(* with NoSolutionError if the frontier is empty.  Refuted: a frontier     *)
(* that empties on the max_steps-th expansion gives NoSolutionError.       *)
(***************************************************************************)
C6_AsStated ==
    BfsFailed =>
        /\ (bfs_expansions = problem.max_steps => bfs_result = "SearchTimeoutError")
        /\ (Len(heap) = 0 => bfs_result = "NoSolutionError")

(***************************************************************************)
(* C6, amended: a failing best-first search raises SearchTimeoutError      *)
(* exactly when it stops with a non-empty frontier, and then max_steps     *)
(* expansions have been performed; it raises NoSolutionError exactly when  *)
(* it stops with an empty frontier, whether or not max_steps expansions    *)
(* have been performed by then; no goal state was expanded either way.     *)
(***************************************************************************)
C6_FailureKind ==
    BfsFailed =>
        /\ (bfs_result = "SearchTimeoutError") = (Len(heap) > 0)
        /\ (bfs_result = "NoSolutionError") = (Len(heap) = 0)
        /\ (bfs_result = "SearchTimeoutError" =>
                remaining_steps = 0 /\ bfs_expansions = problem.max_steps)
        /\ bfs_expansions <= problem.max_steps
        /\ \A s \in explored_states : ~IsGoalState(problem, s)

C6_Witness ==
    /\ bfs_result = "NoSolutionError"
    /\ bfs_expansions = problem.max_steps
    /\ problem.max_steps > 0

(***************************************************************************)
(* C7, as stated: when both searches return an action sequence for a       *)
(* problem, the two sequences have equal total cost.  Read with the        *)
(* heuristic consistent, so that nothing but the costs' being fractions    *)
(* can tell the two apart.  Refuted by costs 2 and 1.5 to two goals.       *)
(***************************************************************************)
C7_EqualCost ==
    (Consistent(problem) /\ bfs_result = "solution" /\ iddfs_result = "solution") =>
        SequenceCost(problem, InitialState(problem), ActionSequence(bfs_solution), 1)
            = SequenceCost(problem, InitialState(problem), ActionSequence(iddfs_solution), 1)

(***************************************************************************)
(* C8, as stated: with min_cost admissible, the sequence the best-first    *)
(* search returns leads to a goal state and costs the least of all         *)
(* goal-reaching sequences.  Refuted by an admissible heuristic that is    *)
(* not consistent: a state closed at a higher cost is never reopened.      *)
(***************************************************************************)
C8_Optimal ==
    (Admissible(problem) /\ bfs_result = "solution") =>
        /\ IsGoalState(problem, SequenceEnd(problem, InitialState(problem),
                                            ActionSequence(bfs_solution), 1))
        /\ SequenceCost(problem, InitialState(problem), ActionSequence(bfs_solution), 1)
               = TrueCost(problem, InitialState(problem))

Returned == pc = "done" /\ bus_result = "returned"
ReturnedBussing == replay_state.current_bussing
FullProblem == [problem EXCEPT !.truncate_history = FALSE]

\* The state of the replay after the first i actions of the sequence found.
ReplayPrefix(i) ==
    Replay(FullProblem, RouterInitialState(FullProblem),
           SubSeq(ActionSequence(bfs_solution), 1, i), 1).state

StrengthAt(state, pos) == state.current_bussing.element_sig_strengths[pos]

(***************************************************************************)
(* C1, as stated: no element voxel and no foundation voxel of a returned   *)
(* bussing lies in the obstacle set, except at the end voxel (read here    *)
(* with the end voxel's own foundation excepted too).  Refuted by a start  *)
(* voxel inside the obstacle set: the start element is never checked.      *)
(***************************************************************************)
C1_AsStated ==
    Returned =>
        (element_foundation_blocks(ReturnedBussing) \cap problem.instance_points)
            \subseteq {problem.end_pos, Down(problem.end_pos)}

(***************************************************************************)
(* C1, amended: no element voxel and no foundation voxel of a returned     *)
(* bussing lies in the obstacle set, except the start voxel, the end       *)
(* voxel, and the foundation voxels beneath those two.                     *)
(***************************************************************************)
C1_ObstaclesAvoided ==
    Returned =>
        (element_foundation_blocks(ReturnedBussing) \cap problem.instance_points)
            \subseteq {problem.start_pos, Down(problem.start_pos),
                       problem.end_pos, Down(problem.end_pos)}

C1_Witness ==
    /\ Returned
    /\ problem.start_pos \in problem.instance_points
    /\ problem.end_pos \notin problem.instance_points
    /\ Cardinality(element_blocks(ReturnedBussing)) >= 4

(***************************************************************************)
(* C2, as stated: in a returned bussing the start voxel has strength 15,   *)
(* the end voxel is a wire of strength above 0, no wire has strength 0,    *)
(* and along the path a wire placed after a wire of strength s has         *)
(* strength s - 1 and a wire placed after a repeater has strength 15.      *)
(* Refuted 15 voxels down a straight tunnel: the path puts a repeater on   *)
(* the end voxel, steps past it and comes back with a wire, and the        *)
(* returned bussing still holds the repeater at the end voxel.             *)
(***************************************************************************)
C2_SignalStrengths ==
    Returned =>
        LET W == ReturnedBussing
            steps == ActionSequence(bfs_solution)
        IN  /\ W.element_sig_strengths[problem.start_pos] = InitialSignalStrength
            /\ problem.end_pos \in wire_blocks(W)
            /\ W.element_sig_strengths[problem.end_pos] \in 1..InitialSignalStrength
            /\ \A w \in wire_blocks(W) : W.element_sig_strengths[w] # 0
            /\ \A i \in 1..Len(steps) :
                   LET before == ReplayPrefix(i - 1)
                       prev == StrengthAt(before, before.current_position)
                       next == StrengthAt(ReplayPrefix(i), steps[i].next_pos)
                   IN  (~steps[i].is_repeater) =>
                           next = IF prev = REPEATER THEN InitialSignalStrength ELSE prev - 1

(***************************************************************************)
(* C3, as stated: every action sequence the search finds over the          *)
(* history-truncated states replays against the whole bussing, so that     *)
(* redstone_bussing never raises BussingLogicError.  Refuted in a box of   *)
(* 2 x 3 x 2 voxels: the fourth wire found stands on the start voxel,      *)
(* which the truncated history had forgotten by then.                      *)
(***************************************************************************)
C3_ReplaySucceeds == bus_result # "BussingLogicError"

(***************************************************************************)
(* C4: redstone_bussing ends with a BussingError of its own for each way   *)
(* of failing: BussingTimeoutError when the search ran out of max_steps    *)
(* (SearchTimeoutError), BussingImpossibleError when its frontier emptied  *)
(* (NoSolutionError), BussingLogicError when the replay rejects a step;    *)
(* the caller never sees SearchTimeoutError or NoSolutionError.            *)
(***************************************************************************)
C4_ErrorKinds ==
    /\ bus_result \in {"none", "returned", "BussingTimeoutError", "BussingImpossibleError",
                       "BussingLogicError"}
    /\ pc = "done" =>
        /\ (bus_result = "BussingTimeoutError") = (bfs_result = "SearchTimeoutError")
        /\ (bus_result = "BussingImpossibleError") = (bfs_result = "NoSolutionError")
        /\ bfs_result = "SearchTimeoutError" => (remaining_steps = 0 /\ Len(heap) > 0)
        /\ bfs_result = "NoSolutionError" => Len(heap) = 0
        /\ (bus_result = "BussingLogicError") = (bfs_result = "solution" /\ replay_state.none)
        /\ (bus_result = "returned") = (bfs_result = "solution" /\ ~replay_state.none)

C4_Witness ==
    /\ pc = "done"
    /\ bus_result = "BussingTimeoutError"
    /\ bfs_expansions = problem.max_steps

(***************************************************************************)
(* The router's state space walked action by action, as any search over    *)
(* RedstonePathFindingProblem may walk it: from initial_state(), any       *)
(* action of state_actions whose state_action_result is a state.  The walk *)
(* keeps min_cost and the cost so far of every state it went through.  It  *)
(* keeps the whole history: whatever it reaches, the search over           *)
(* truncated histories reaches too, at the same costs.                     *)
(***************************************************************************)
MaxWalk == 4
WalkLo == <<0, 0, 0>>
WalkHi == <<2, 0, 1>>
WalkHints == {"none", "east", "south"}

WalkProblems ==
    {[RouterProblem(WalkLo, e, hs, he, BoxWalls(WalkLo, WalkHi), EmptyBussing, MaxWalk)
         EXCEPT !.truncate_history = FALSE] :
        e \in BoxCells(WalkLo, WalkHi) \ {WalkLo}, hs \in WalkHints, he \in WalkHints}

Visit(state, cost) == [min_cost |-> RouterMinCost(problem, state), cost |-> cost]

WalkInit ==
    /\ problem \in WalkProblems
    /\ pc = "walk"
    /\ SearchIdle
    /\ replay_state = NoneState
    /\ replay_index = 0
    /\ bus_result = "none"
    /\ walk = [state |-> RouterInitialState(problem), cost |-> 0,
               trail |-> <<Visit(RouterInitialState(problem), 0)>>]
    /\ SaIdle
    /\ AsmIdle

WalkStep ==
    /\ pc = "walk"
    /\ Len(walk.trail) <= problem.max_steps
    /\ \E i \in 1..Len(RouterStateActions(problem, walk.state)) :
           LET action == RouterStateActions(problem, walk.state)[i]
               next == RouterStateActionResult(problem, walk.state, action)
               cost == walk.cost + RouterStateActionCost(problem, walk.state, action)
           IN  /\ ~next.none
               /\ walk' = [state |-> next, cost |-> cost,
                           trail |-> Append(walk.trail, Visit(next, cost))]
    /\ UNCHANGED <<problem, pc, bfsVars, iddfsVars, replay_state, replay_index, bus_result, sa,
                   asmVars>>

WalkNext == WalkStep

SpecWalk == WalkInit /\ [][WalkNext]_vars

(***************************************************************************)
(* C5, as stated: min_cost is admissible: for every state S the router     *)
(* reaches, min_cost(S) is at most the summed state_action_cost of every   *)
(* action sequence from S to a goal state.  Refuted from (0,0,0) to        *)
(* (0,0,1) with both hints east: min_cost is 7 at the start, and the one   *)
(* wire step south reaches the goal for 4.                                 *)
(***************************************************************************)
C5_Admissible ==
    (pc = "walk" /\ RouterIsGoalState(problem, walk.state)) =>
        \A i \in 1..Len(walk.trail) :
            walk.trail[i].min_cost <= walk.cost - walk.trail[i].cost

(***************************************************************************)
(* sim_annealing_searched_solution.  A LocalSearchProblem is a cost for    *)
(* each of the solutions 1..NumSolutions and the set of those that are     *)
(* good_enough; random_solution() and mutated_solution(s) may give any     *)
(* solution.  An unset (None) solution is <<>>, a set one is <<s>>.        *)
(* random() < exp(-x) can go either way for x > 0; x = 0 never gets there. *)
(***************************************************************************)
NumSolutions == 3
MaxSolutionCost == 2
MaxRounds == 3
MaxRestarts == 2

Solutions == 1..NumSolutions

AnnealingProblems ==
    {[kind |-> "annealing", solution_cost |-> c, good_enough |-> g,
      total_rounds |-> n, restarts |-> r] :
        c \in [Solutions -> 0..MaxSolutionCost], g \in SUBSET Solutions,
        n \in 1..MaxRounds, r \in 1..MaxRestarts}

CostOf(p, opt) == p.solution_cost[opt[1]]

\* A variant of the final return that hands back the current solution.
AnnealingCurrent(s) == s.current_solution

\* The final return: best_solution.
AnnealingReturn(s) == s.best_solution

\* A variant of the best-so-far test that keeps the first candidate.
FirstIsBest(p, best_solution, candidate_cost) == best_solution = <<>>

\* if best_cost is None or candidate_cost < best_cost.
ImprovesBest(p, best_solution, candidate_cost) ==
    best_solution = <<>> \/ candidate_cost < CostOf(p, best_solution)

AnnealingInit ==
    /\ problem \in AnnealingProblems
    /\ pc = "anneal"
    /\ SearchIdle
    /\ RouterIdle
    /\ AsmIdle
    /\ sa = [phase |-> "run", i |-> 0, current_solution |-> <<>>, best_solution |-> <<>>,
             candidate_source |-> "none", random_calls |-> 0, mutated_calls |-> 0,
             accepted_costs |-> {}, evaluated_costs |-> {},
             result |-> "none", returned |-> <<>>, early |-> FALSE]

\* One round of the loop over range(total_rounds).
AnnealingRound ==
    /\ pc = "anneal"
    /\ sa.i < problem.total_rounds
    /\ \E candidate \in Solutions, draw \in BOOLEAN :
        LET rounds_per_restart == problem.total_rounds \div problem.restarts
            candidate_solution == <<candidate>>
            candidate_cost == CostOf(problem, candidate_solution)
            current_unset == sa.current_solution = <<>>
            current_cost == CostOf(problem, sa.current_solution)
            accept_solution ==
                \/ current_unset
                \/ candidate_cost < current_cost
                \/ draw
            restart == sa.i % rounds_per_restart = 0
            evaluated == [sa EXCEPT !.evaluated_costs = @ \cup {candidate_cost},
                                    !.candidate_source =
                                        IF restart
                                        THEN "random_solution" ELSE "mutated_solution",
                                    !.random_calls = IF restart THEN @ + 1 ELSE @,
                                    !.mutated_calls = IF restart THEN @ ELSE @ + 1]
        IN  IF rounds_per_restart = 0
            THEN /\ sa' = [sa EXCEPT !.result = "ZeroDivisionError", !.phase = "done"]
                 /\ pc' = "done"
            ELSE IF candidate \in problem.good_enough
            THEN /\ sa' = [evaluated EXCEPT !.result = "returned", !.phase = "done",
                                            !.returned = candidate_solution,
                                            !.early = TRUE]
                 /\ pc' = "done"
            ELSE IF (~current_unset) /\ candidate_cost >= current_cost /\ current_cost = 0
            THEN /\ sa' = [evaluated EXCEPT !.result = "ZeroDivisionError", !.phase = "done"]
                 /\ pc' = "done"
            ELSE /\ sa' = [evaluated EXCEPT
                               !.current_solution =
                                   IF accept_solution THEN candidate_solution ELSE @,
                               !.accepted_costs =
                                   IF accept_solution THEN @ \cup {candidate_cost} ELSE @,
                               !.best_solution =
                                   IF ImprovesBest(problem, @, candidate_cost)
                                   THEN candidate_solution ELSE @,
                               !.i = @ + 1]
                 /\ UNCHANGED pc
    /\ UNCHANGED <<problem, bfsVars, iddfsVars, routerVars, asmVars>>

\* After the last round: return best_solution.
AnnealingFinish ==
    /\ pc = "anneal"
    /\ sa.i = problem.total_rounds
    /\ sa' = [sa EXCEPT !.result = "returned", !.phase = "done",
                        !.returned = AnnealingReturn(sa)]
    /\ pc' = "done"
    /\ UNCHANGED <<problem, bfsVars, iddfsVars, routerVars, asmVars>>

AnnealingNext == AnnealingRound \/ AnnealingFinish

SpecAnnealing == AnnealingInit /\ [][AnnealingNext]_vars

AnnealingReturned == pc = "done" /\ sa.result = "returned"

(***************************************************************************)
(* C10, as stated: however the call returns, at the end of the rounds or   *)
(* early through good_enough, the solution returned costs no more than     *)
(* the cheapest candidate accepted during the run.  Refuted by an early    *)
(* return: the good_enough candidate is returned whatever it costs.        *)
(***************************************************************************)
C10_AsStated ==
    AnnealingReturned =>
        \A c \in sa.accepted_costs : CostOf(problem, sa.returned) <= c

(***************************************************************************)
(* C10, amended: a call that returns at the end of the rounds returns a    *)
(* solution that costs no more than any candidate accepted, nor any        *)
(* candidate evaluated, during the run; a call that returns early returns  *)
(* the candidate that was good_enough, whatever its cost.                  *)
(***************************************************************************)
C10_ReturnedCost ==
    AnnealingReturned =>
        IF sa.early
        THEN sa.returned[1] \in problem.good_enough
        ELSE /\ sa.i = problem.total_rounds
             /\ \A c \in sa.accepted_costs \cup sa.evaluated_costs :
                    CostOf(problem, sa.returned) <= c
             /\ CostOf(problem, sa.returned) \in sa.accepted_costs

C10_Witness ==
    /\ AnnealingReturned
    /\ ~sa.early
    /\ CostOf(problem, sa.current_solution) > CostOf(problem, sa.returned)

(***************************************************************************)
(* dest_pin_buses: the pin pairs of a placement routed one after another,  *)
(* each call of redstone_bussing given the union of the buses stored so    *)
(* far.  The dict dest_pin_buses is a sequence of <<dest_pin_id, bussing>> *)
(* in insertion order.  The instances' padded region is the walls of a     *)
(* closed box around the free voxels BusLo..BusHi; the pins lie inside it. *)
(***************************************************************************)
DestPinBusesMaxSteps == 2048

DictSet(d, key, value) ==
    IF \E i \in DOMAIN d : d[i][1] = key
    THEN [i \in DOMAIN d |-> IF d[i][1] = key THEN <<key, value>> ELSE d[i]]
    ELSE Append(d, <<key, value>>)

RECURSIVE ReduceOr(_, _, _)
ReduceOr(values, i, acc) ==
    IF i > Len(values) THEN acc ELSE ReduceOr(values, i + 1, BussingUnion(acc, values[i]))

DictValues(d) == [i \in DOMAIN d |-> d[i][2]]

\* A variant of other_buses that hands over the bus stored last only.
OtherBusesLast(dest_pin_buses) ==
    IF Len(dest_pin_buses) = 0 THEN EmptyBussing
    ELSE dest_pin_buses[Len(dest_pin_buses)][2]

\* other_buses = reduce(operator.or_, dest_pin_buses.values(), RedstoneBussing())
OtherBuses(dest_pin_buses) == ReduceOr(DictValues(dest_pin_buses), 1, EmptyBussing)

PinPosPair(source_pin_pos, dest_pin_id, dest_pin_pos) ==
    [source_pin_pos |-> source_pin_pos, source_pin_facing |-> "none",
     dest_pin_id |-> dest_pin_id, dest_pin_pos |-> dest_pin_pos,
     dest_pin_facing |-> "none"]

BusLo == <<0, 0, 0>>
BusHi == <<2, 0, 2>>
MaxPairs == 3
SourcePins == {<<0, 0, 0>>, <<2, 0, 0>>}
DestPins == <<(<<0, 0, 2>>), (<<2, 0, 2>>), (<<1, 0, 1>>)>>

\* The pin pairs of a placement: every destination pin is driven once.
PinPairLists ==
    UNION {{pairs \in [1..n -> {PinPosPair(s, d, DestPins[d]) :
                                   s \in SourcePins, d \in DOMAIN DestPins}] :
               \A i, j \in 1..n : i # j => pairs[i].dest_pin_id # pairs[j].dest_pin_id} :
           n \in 1..MaxPairs}

\* A wider placement: three pins facing three pins, wired straight across
\* in any order.
WideLo == <<0, 0, 0>>
WideHi == <<4, 0, 2>>
WidePairLists ==
    {pairs \in [1..3 -> {PinPosPair(<<2 * (d - 1), 0, 0>>, d, <<2 * (d - 1), 0, 2>>) :
                            d \in 1..3}] :
        \A i, j \in 1..3 : i # j => pairs[i].dest_pin_id # pairs[j].dest_pin_id}

BussingPlacements ==
    {[pairs |-> pairs, instance_points |-> BoxWalls(BusLo, BusHi)] : pairs \in PinPairLists}
    \cup {[pairs |-> pairs, instance_points |-> BoxWalls(WideLo, WideHi)] :
             pairs \in WidePairLists}

BussingInit ==
    /\ problem = [kind |-> "none"]
    /\ pc = "pairs"
    /\ SearchIdle
    /\ RouterIdle
    /\ SaIdle
    /\ orders = [phase |-> "idle"]
    /\ cache = [phase |-> "idle"]
    /\ placer = [phase |-> "idle"]
    /\ \E placement \in BussingPlacements :
        routing = [phase |-> "run", pairs |-> placement.pairs,
                   instance_points |-> placement.instance_points,
                   k |-> 1, dest_pin_buses |-> <<>>, calls |-> <<>>, paths |-> <<>>,
                   result |-> "none"]

\* The head of the loop over the pin pairs, up to the call of the router.
DestPinBusesCall ==
    /\ pc = "pairs"
    /\ routing.k <= Len(routing.pairs)
    /\ LET pin_pos_pair == routing.pairs[routing.k]
           other_buses == OtherBuses(routing.dest_pin_buses)
           p == RouterProblem(pin_pos_pair.source_pin_pos, pin_pos_pair.dest_pin_pos,
                              pin_pos_pair.source_pin_facing, pin_pos_pair.dest_pin_facing,
                              routing.instance_points, other_buses, DestPinBusesMaxSteps)
       IN  /\ problem' = p
           /\ routing' = [routing EXCEPT !.calls = Append(@, other_buses)]
           /\ heap' = <<InitialStep(InitialState(p))>>
           /\ explored_states' = {}
           /\ remaining_steps' = p.max_steps
           /\ bfs_expansions' = 0
           /\ bfs_result' = "none"
           /\ bfs_solution' = InitialStep(InitialState(p))
           /\ replay_state' = NoneState
           /\ replay_index' = 0
           /\ bus_result' = "none"
    /\ pc' = "bfs"
    /\ UNCHANGED <<iddfsVars, walk, sa, orders, cache, placer>>

\* After the call: the bus is stored under its destination pin, or the
\* router's error leaves dest_pin_buses.
DestPinBusesStore ==
    /\ pc = "routed"
    /\ IF bus_result = "returned"
       THEN /\ routing' = [routing EXCEPT
                    !.dest_pin_buses = DictSet(@, routing.pairs[routing.k].dest_pin_id,
                                               replay_state.current_bussing),
                    !.paths = Append(@, replay_state.current_bussing),
                    !.k = @ + 1]
            /\ pc' = "pairs"
       ELSE /\ routing' = [routing EXCEPT !.result = bus_result]
            /\ pc' = "done"
    /\ UNCHANGED <<problem, bfsVars, iddfsVars, routerVars, sa, orders, cache, placer>>

DestPinBusesReturn ==
    /\ pc = "pairs"
    /\ routing.k > Len(routing.pairs)
    /\ routing' = [routing EXCEPT !.result = "returned"]
    /\ pc' = "done"
    /\ UNCHANGED <<problem, bfsVars, iddfsVars, routerVars, sa, orders, cache, placer>>

BussingNext ==
    \/ DestPinBusesCall
    \/ BfsIteration
    \/ BfsExhausted
    \/ RedstoneBussingFinish
    \/ DestPinBusesStore
    \/ DestPinBusesReturn

SpecBussing == BussingInit /\ [][BussingNext]_vars

\* The union of the first n buses returned, as RedstoneBussing.__or__ joins them.
PathsUnion(n) == ReduceOr(SubSeq(routing.paths, 1, n), 1, EmptyBussing)

(***************************************************************************)
(* C11: routing is sequential.  The k-th call of the router is made when   *)
(* exactly k-1 buses have been returned (or is the one under way), and the *)
(* other_buses it is given are the union of those k-1 buses; the router    *)
(* problem under way carries the other_buses of the last call.             *)
(***************************************************************************)
C11_Sequential ==
    routing.phase = "run" =>
        /\ Len(routing.calls) \in {Len(routing.paths), Len(routing.paths) + 1}
        /\ \A k \in 1..Len(routing.calls) : routing.calls[k] = PathsUnion(k - 1)
        /\ Len(routing.calls) > 0 =>
               /\ problem.other_buses = routing.calls[Len(routing.calls)]
               /\ problem.start_pos = routing.pairs[Len(routing.calls)].source_pin_pos
               /\ problem.end_pos = routing.pairs[Len(routing.calls)].dest_pin_pos

C11_Witness ==
    /\ routing.phase = "run"
    /\ routing.result = "returned"
    /\ Len(routing.calls) = 3
    /\ routing.calls[2] # EmptyBussing
    /\ routing.calls[3] # routing.calls[2]
    /\ routing.calls[3] # routing.paths[2]

(***************************************************************************)
(* Netlist.source_dest_pin_id_seq_pairs and source_dest_pin_pos_pairs, run *)
(* twice on one netlist (two runs of the program).  networks is a dict, so *)
(* it is walked in the order it was built in; output_pin_id_seqs is a set  *)
(* of PinIdSequence, hashed on the strings of port_id and on repr(slice),  *)
(* so the order it is walked in is the hash order of the run: any order.   *)
(* A PinIdSequence is <<instance id, port name, bit width>>.               *)
(***************************************************************************)
MaxNetworks == 2
MaxBitWidth == 2
DriverPorts == {<<"input", "out">>, <<"adder", "out">>}
SinkPorts == {<<"output", "in">>, <<"register", "a">>, <<"register", "b">>}

Networks ==
    {[input_pin_id_seq |-> <<d[1], d[2], w>>,
      output_pin_id_seqs |-> {<<s[1], s[2], w>> : s \in sinks}] :
        d \in DriverPorts, sinks \in (SUBSET SinkPorts) \ {{}}, w \in 1..MaxBitWidth}

\* netlist.networks, as the sequence of its values in dict order.
Netlists == UNION {[1..n -> Networks] : n \in 1..MaxNetworks}

\* PinIdSequence.pin_ids
pin_ids(pin_id_seq) == [i \in 1..pin_id_seq[3] |-> <<pin_id_seq[1], pin_id_seq[2], i - 1>>]

\* results.extend(... zip(source pin ids, dest pin ids)) of one yielded pair.
ZippedPinPairs(source_pin_id_seq, dest_pin_id_seq) ==
    [i \in 1..Min(source_pin_id_seq[3], dest_pin_id_seq[3]) |->
        <<pin_ids(source_pin_id_seq)[i], pin_ids(dest_pin_id_seq)[i]>>]

OutputsAt(networks, n) == IF n <= Len(networks) THEN networks[n].output_pin_id_seqs ELSE {}

OrderRunStart(networks) == [n |-> 1, left |-> OutputsAt(networks, 1), results |-> <<>>]

OrderInit ==
    /\ problem = [kind |-> "none"]
    /\ pc = "order"
    /\ SearchIdle
    /\ RouterIdle
    /\ SaIdle
    /\ routing = [phase |-> "idle"]
    /\ cache = [phase |-> "idle"]
    /\ placer = [phase |-> "idle"]
    /\ \E networks \in Netlists :
        orders = [phase |-> "run", networks |-> networks,
                  runs |-> <<OrderRunStart(networks), OrderRunStart(networks)>>]

\* One turn of the loops of source_dest_pin_id_seq_pairs in one of the two
\* runs, with what source_dest_pin_pos_pairs appends for the pair yielded.
SourceDestPairsStep ==
    /\ pc = "order"
    /\ \E r \in 1..2 :
        LET run == orders.runs[r]
            networks == orders.networks
            network == networks[run.n]
            next_network == [run EXCEPT !.n = @ + 1, !.left = OutputsAt(networks, run.n + 1)]
        IN  /\ run.n <= Len(networks)
            /\ IF network.input_pin_id_seq[1] = "input" \/ run.left = {}
               THEN orders' = [orders EXCEPT !.runs[r] = next_network]
               ELSE \E dest_pin_id_seq \in run.left :
                       orders' = [orders EXCEPT !.runs[r] =
                           [run EXCEPT
                               !.left = @ \ {dest_pin_id_seq},
                               !.results =
                                   IF dest_pin_id_seq[1] = "output" THEN @
                                   ELSE @ \o ZippedPinPairs(network.input_pin_id_seq,
                                                            dest_pin_id_seq)]]
    /\ UNCHANGED <<problem, pc, bfsVars, iddfsVars, routerVars, sa, routing, cache, placer>>

OrderNext == SourceDestPairsStep

SpecOrder == OrderInit /\ [][OrderNext]_vars

OrderRunDone(r) == orders.runs[r].n > Len(orders.networks)

(***************************************************************************)
(* C12: two runs on one netlist route the pin pairs in the same order.     *)
(* Refuted by a network that drives two ports of one instance: the two     *)
(* runs walk the set of its sinks in different orders.                     *)
(***************************************************************************)
C12_SameOrder ==
    (orders.phase = "run" /\ OrderRunDone(1) /\ OrderRunDone(2)) =>
        orders.runs[1].results = orders.runs[2].results

(***************************************************************************)
(* first_id_cached: the wrapper around a cached function.  The function    *)
(* cached is any function: its n-th invocation returns <<"value", n>> or   *)
(* raises <<"error", n>>, so a second invocation is never mistaken for a   *)
(* cache hit.  id_obj is one of CachedObjects (an object is its identity), *)
(* args one of ArgTuples, kwargs a sequence of <<name, value>> items in    *)
(* the order the caller wrote them.                                        *)
(***************************************************************************)
MaxCalls == 3
CachedObjects == {"netlist_1", "netlist_2"}
ArgTuples == {<<"placement_1">>, <<"placement_2">>}
KwargNames == <<"instance_id", "xz_padding">>
KwargCalls ==
    {<<>>, <<(<<"instance_id", 1>>), (<<"xz_padding", 3>>)>>,
     <<(<<"xz_padding", 3>>), (<<"instance_id", 1>>)>>}

\* The order of two kwargs items in sorted(): by name, a str.
KwargLt(a, b) ==
    (CHOOSE i \in DOMAIN KwargNames : KwargNames[i] = a[1])
        < (CHOOSE i \in DOMAIN KwargNames : KwargNames[i] = b[1])

RECURSIVE KwargInsert(_, _)
KwargInsert(sorted, item) ==
    IF sorted = <<>> THEN <<item>>
    ELSE IF KwargLt(item, sorted[Len(sorted)])
         THEN Append(KwargInsert(SubSeq(sorted, 1, Len(sorted) - 1), item),
                     sorted[Len(sorted)])
         ELSE Append(sorted, item)

RECURSIVE KwargsSorted(_, _, _)
KwargsSorted(items, i, acc) ==
    IF i > Len(items) THEN acc ELSE KwargsSorted(items, i + 1, KwargInsert(acc, items[i]))

\* A variant of the key that leaves the identity of the first argument out.
first_id_cached_key_by_args(id_obj, args, kwargs) ==
    <<"any", args, KwargsSorted(kwargs, 1, <<>>)>>

\* key = (id(id_obj), tuple(args), tuple(sorted(kwargs.items())))
first_id_cached_key(id_obj, args, kwargs) ==
    <<id_obj, args, KwargsSorted(kwargs, 1, <<>>)>>

\* What a caller can tell two calls apart by: the object, the arguments and
\* the keyword arguments whatever their order.
CallIdentity(id_obj, args, kwargs) == <<id_obj, args, Range(kwargs)>>

Raised(value) == [raised |-> TRUE, value |-> value]
ReturnedValue(value) == [raised |-> FALSE, value |-> value]

\* The wrapper: the cache after the call, whether func was invoked, and the
\* value returned or the exception raised.  func_outcome is what func
\* returns or raises if it is invoked.
first_id_cached_call(func_cache, key, assert_cached, func_outcome) ==
    IF key \notin DOMAIN func_cache
    THEN IF assert_cached
         THEN [func_cache |-> func_cache, invoked |-> FALSE,
               outcome |-> Raised("CachingError")]
         ELSE LET entry == <<~func_outcome.raised, func_outcome.value>>
              IN  [func_cache |-> (key :> entry) @@ func_cache, invoked |-> TRUE,
                   outcome |-> IF entry[1] THEN ReturnedValue(entry[2])
                               ELSE Raised(entry[2])]
    ELSE LET entry == func_cache[key]
         IN  [func_cache |-> func_cache, invoked |-> FALSE,
              outcome |-> IF entry[1] THEN ReturnedValue(entry[2]) ELSE Raised(entry[2])]

\* The function cached: its n-th invocation returns or raises a fresh value.
FreshOutcome(invocations, func_raises) ==
    IF func_raises THEN Raised(<<"error", invocations + 1>>)
    ELSE ReturnedValue(<<"value", invocations + 1>>)

CacheInit ==
    /\ problem = [kind |-> "none"]
    /\ pc = "cache"
    /\ SearchIdle
    /\ RouterIdle
    /\ SaIdle
    /\ routing = [phase |-> "idle"]
    /\ orders = [phase |-> "idle"]
    /\ placer = [phase |-> "idle"]
    /\ cache = [phase |-> "run", func_cache |-> EmptyFunction, invocations |-> 0,
                ncalls |-> 0, completed |-> EmptyFunction, computed |-> EmptyFunction,
                last |-> <<>>]

\* One call of the wrapped function.
FirstIdCachedCall ==
    /\ pc = "cache"
    /\ cache.ncalls < MaxCalls
    /\ \E id_obj \in CachedObjects, args \in ArgTuples, kwargs \in KwargCalls,
          assert_cached \in BOOLEAN, func_raises \in BOOLEAN :
        LET key == first_id_cached_key(id_obj, args, kwargs)
            call == first_id_cached_call(cache.func_cache, key, assert_cached,
                                         FreshOutcome(cache.invocations, func_raises))
            identity == CallIdentity(id_obj, args, kwargs)
        IN  cache' = [cache EXCEPT
                !.func_cache = call.func_cache,
                !.invocations = IF call.invoked THEN @ + 1 ELSE @,
                !.ncalls = @ + 1,
                !.completed = IF identity \in DOMAIN @ THEN @
                              ELSE (identity :> call.outcome) @@ @,
                !.computed = IF call.invoked THEN (identity :> call.outcome) @@ @ ELSE @,
                !.last = <<[identity |-> identity, assert_cached |-> assert_cached,
                            invoked |-> call.invoked, outcome |-> call.outcome,
                            completed_before |-> identity \in DOMAIN cache.completed,
                            computed_before |-> identity \in DOMAIN cache.computed,
                            computed_count |-> Cardinality(DOMAIN cache.computed),
                            invocations_before |-> cache.invocations]>>]
    /\ UNCHANGED <<problem, pc, bfsVars, iddfsVars, routerVars, sa, routing, orders, placer>>

CacheNext == FirstIdCachedCall

SpecCache == CacheInit /\ [][CacheNext]_vars

LastCall == cache.last[1]
CacheCalled == cache.phase = "run" /\ cache.last # <<>>

(***************************************************************************)
(* C17, as stated: once a call with a key has completed, every later call  *)
(* with that key gives the same value or failure without invoking the      *)
(* function, and a call whose key was not seen before is computed.         *)
(* Refuted by a call with assert_cached=True on a key not seen before: it  *)
(* raises CachingError and computes nothing.                               *)
(***************************************************************************)
C17_AsStated ==
    CacheCalled =>
        IF LastCall.completed_before
        THEN /\ ~LastCall.invoked
             /\ LastCall.outcome = cache.completed[LastCall.identity]
        ELSE LastCall.invoked

(***************************************************************************)
(* C17, amended: once a call with a key has been computed, every later     *)
(* call with that key gives the value or failure of that computation       *)
(* without invoking the function; a call whose key has no entry is         *)
(* computed, one invocation, unless it passes assert_cached=True, which    *)
(* raises CachingError, invokes nothing and stores nothing.                *)
(***************************************************************************)
C17_CacheEntries ==
    CacheCalled =>
        IF LastCall.computed_before
        THEN /\ ~LastCall.invoked
             /\ LastCall.outcome = cache.computed[LastCall.identity]
             /\ cache.invocations = LastCall.invocations_before
        ELSE IF LastCall.assert_cached
        THEN /\ ~LastCall.invoked
             /\ LastCall.outcome = Raised("CachingError")
             /\ LastCall.identity \notin DOMAIN cache.computed
             /\ cache.invocations = LastCall.invocations_before
        ELSE /\ LastCall.invoked
             /\ cache.invocations = LastCall.invocations_before + 1
             /\ LastCall.outcome.value[2] = cache.invocations
             /\ cache.computed[LastCall.identity] = LastCall.outcome

C17_Witness ==
    /\ CacheCalled
    /\ LastCall.computed_before
    /\ LastCall.outcome.raised
    /\ LastCall.outcome.value # "CachingError"
    /\ LastCall.outcome.value[2] < cache.invocations
    /\ cache.ncalls = MaxCalls

(***************************************************************************)
(* BussingPlacementProblem and the annealing run of                        *)
(* schematic_placement_from_netlist over it.  A placement is one of        *)
(* Placements; what the geometry decides about it is given with the        *)
(* problem: its unbussable cost, what redstone routing of its pin pairs    *)
(* ends with (dest_pin_buses returns the buses, or one of the router's     *)
(* three errors leaves it), and its bussable cost.  dest_pin_buses is      *)
(* first_id_cached; its cache lives as long as the run.                    *)
(***************************************************************************)
NumPlacements == 2
PlacerRounds == 3
max_reasonable_unbussed_cost == 70
max_bussing_steps == 25
UnbussablePenalty == 100000

Placements == 1..NumPlacements
UnbussableCosts == {60, max_reasonable_unbussed_cost, max_reasonable_unbussed_cost + 1}
BussableCosts == {40, 90}
RouteOutcomes ==
    {"returned", "BussingTimeoutError", "BussingImpossibleError", "BussingLogicError"}

PlacementProblems ==
    {[kind |-> "placer", unbussable_cost |-> u, route |-> r, bussable_cost |-> b,
      total_rounds |-> PlacerRounds, restarts |-> 1] :
        u \in [Placements -> UnbussableCosts], r \in [Placements -> RouteOutcomes],
        b \in [Placements -> BussableCosts]}

\* except BussingError: the classes of bussing/errors.py it catches.
IsBussingError(e) ==
    e \in {"BussingError", "BussingTimeoutError", "BussingImpossibleError",
           "BussingLogicError"}

unbussable_placement_cost(p, solution) == p.unbussable_cost[solution]
bussable_placement_cost(p, solution) == p.bussable_cost[solution]

\* dest_pin_buses(netlist, placement) itself: it takes two arguments.
dest_pin_buses_func(p, args) ==
    IF Len(args) # 1 THEN Raised("TypeError")
    ELSE IF p.route[args[1]] = "returned" THEN ReturnedValue(<<"buses", args[1]>>)
    ELSE Raised(p.route[args[1]])

\* dest_pin_buses as its callers see it, through first_id_cached.
dest_pin_buses(p, func_cache, args) ==
    first_id_cached_call(func_cache, first_id_cached_key("netlist", args, <<>>), FALSE,
                         dest_pin_buses_func(p, args))

solution_dest_pin_buses(p, func_cache, solution) ==
    IF unbussable_placement_cost(p, solution) > max_reasonable_unbussed_cost
    THEN [func_cache |-> func_cache, invoked |-> FALSE, outcome |-> Raised("BussingError")]
    ELSE dest_pin_buses(p, func_cache, <<solution, max_bussing_steps>>)

good_enough(p, func_cache, solution) ==
    LET r == solution_dest_pin_buses(p, func_cache, solution)
    IN  [func_cache |-> r.func_cache,
         outcome |-> IF ~r.outcome.raised THEN ReturnedValue(TRUE)
                     ELSE IF r.outcome.value = "OverlappingPlacementError"
                             \/ IsBussingError(r.outcome.value)
                     THEN ReturnedValue(FALSE)
                     ELSE r.outcome]

\* A variant of solution_cost without its except clause.
solution_cost_unguarded(p, func_cache, solution) ==
    LET unbussable_cost == unbussable_placement_cost(p, solution)
        r == dest_pin_buses(p, func_cache, <<solution>>)
    IN  IF unbussable_cost > max_reasonable_unbussed_cost
        THEN [func_cache |-> func_cache,
              outcome |-> ReturnedValue(UnbussablePenalty + unbussable_cost)]
        ELSE [func_cache |-> r.func_cache,
              outcome |-> IF ~r.outcome.raised
                          THEN ReturnedValue(bussable_placement_cost(p, solution))
                          ELSE r.outcome]

solution_cost(p, func_cache, solution) ==
    LET unbussable_cost == unbussable_placement_cost(p, solution)
        r == dest_pin_buses(p, func_cache, <<solution>>)
    IN  IF unbussable_cost > max_reasonable_unbussed_cost
        THEN [func_cache |-> func_cache,
              outcome |-> ReturnedValue(UnbussablePenalty + unbussable_cost)]
        ELSE [func_cache |-> r.func_cache,
              outcome |-> IF ~r.outcome.raised
                          THEN ReturnedValue(bussable_placement_cost(p, solution))
                          ELSE IF IsBussingError(r.outcome.value)
                          THEN ReturnedValue(UnbussablePenalty + unbussable_cost)
                          ELSE r.outcome]

\* mutated_solution up to the choice of the mutation: whether it raises.
mutated_solution(p, func_cache, solution) ==
    LET r == solution_dest_pin_buses(p, func_cache, solution)
    IN  [func_cache |-> r.func_cache,
         outcome |-> IF r.outcome.raised /\ ~IsBussingError(r.outcome.value)
                     THEN r.outcome
                     ELSE ReturnedValue("mutated")]

\* checkpoint(round, placement, cost) of schematic_placement_from_netlist.
checkpoint(p, func_cache, placement) ==
    LET r == dest_pin_buses(p, func_cache, <<placement>>)
    IN  [func_cache |-> r.func_cache,
         outcome |-> IF r.outcome.raised
                        /\ ~(r.outcome.value = "OverlappingPlacementError"
                             \/ IsBussingError(r.outcome.value))
                     THEN r.outcome
                     ELSE ReturnedValue("checkpointed")]

PlacerInit ==
    /\ problem \in PlacementProblems
    /\ pc = "placer"
    /\ SearchIdle
    /\ RouterIdle
    /\ SaIdle
    /\ routing = [phase |-> "idle"]
    /\ orders = [phase |-> "idle"]
    /\ cache = [phase |-> "idle"]
    /\ placer = [phase |-> "run", func_cache |-> EmptyFunction, i |-> 0,
                 current_solution |-> <<>>, best_solution |-> <<>>, seen |-> {},
                 cost_calls |-> {}, good_enough_calls |-> {}, bus_calls |-> {},
                 result |-> "running", value |-> "none"]

\* What a caller of dest_pin_buses obtained for a placement, and whether the
\* wrapper invoked the function for it.
BusCall(caller, solution, r) ==
    [caller |-> caller, solution |-> solution, invoked |-> r.invoked,
     outcome |-> IF r.outcome.raised THEN r.outcome.value ELSE "returned"]

PlacerRaise(func_cache, error) ==
    [placer EXCEPT !.func_cache = func_cache, !.result = "raised", !.value = error]

\* One round of sim_annealing_searched_solution on the placement problem:
\* the candidate (random_solution in the rounds that start a restart
\* period, where netlist_random_placement may give up with TimeoutError,
\* mutated_solution otherwise), the checkpoint, solution_cost, good_enough,
\* acceptance and the best so far.
PlacerRound ==
    /\ pc = "placer"
    /\ placer.result = "running"
    /\ placer.i < problem.total_rounds
    /\ \E candidate_solution \in Placements, placement_found \in BOOLEAN, draw \in BOOLEAN :
        LET rounds_per_restart == problem.total_rounds \div problem.restarts
            restart == placer.i % rounds_per_restart = 0
            mutated ==
                IF restart
                THEN [func_cache |-> placer.func_cache,
                      outcome |-> IF placement_found THEN ReturnedValue("random")
                                  ELSE Raised("TimeoutError")]
                ELSE mutated_solution(problem, placer.func_cache, placer.current_solution[1])
            checkpointed ==
                IF placer.i > 0
                THEN checkpoint(problem, mutated.func_cache, placer.best_solution[1])
                ELSE [func_cache |-> mutated.func_cache,
                      outcome |-> ReturnedValue("no checkpoint")]
            cost == solution_cost(problem, checkpointed.func_cache, candidate_solution)
            good == good_enough(problem, cost.func_cache, candidate_solution)
            candidate_cost == cost.outcome.value
            current_unset == placer.current_solution = <<>>
            current_cost ==
                solution_cost(problem, EmptyFunction, placer.current_solution[1]).outcome.value
            best_unset == placer.best_solution = <<>>
            best_cost ==
                solution_cost(problem, EmptyFunction, placer.best_solution[1]).outcome.value
            accept_solution ==
                \/ current_unset
                \/ candidate_cost < current_cost
                \/ draw
            cost_call == [solution |-> candidate_solution, outcome |-> cost.outcome]
            good_call == [solution |-> candidate_solution, outcome |-> good.outcome]
            routed(solution) ==
                unbussable_placement_cost(problem, solution) <= max_reasonable_unbussed_cost
            mutated_bus ==
                IF ~restart /\ routed(placer.current_solution[1])
                THEN {BusCall("mutated_solution", placer.current_solution[1],
                              solution_dest_pin_buses(problem, placer.func_cache,
                                                      placer.current_solution[1]))}
                ELSE {}
            cost_bus ==
                IF routed(candidate_solution)
                THEN {BusCall("solution_cost", candidate_solution,
                              dest_pin_buses(problem, checkpointed.func_cache,
                                             <<candidate_solution>>))}
                ELSE {}
            good_bus ==
                IF routed(candidate_solution)
                THEN {BusCall("good_enough", candidate_solution,
                              solution_dest_pin_buses(problem, cost.func_cache,
                                                      candidate_solution))}
                ELSE {}
        IN  /\ (restart \/ placement_found)
            /\ placer' =
                IF mutated.outcome.raised
                THEN [PlacerRaise(mutated.func_cache, mutated.outcome.value) EXCEPT
                          !.bus_calls = @ \cup mutated_bus]
                ELSE IF checkpointed.outcome.raised
                THEN [PlacerRaise(checkpointed.func_cache, checkpointed.outcome.value) EXCEPT
                          !.bus_calls = @ \cup mutated_bus]
                ELSE IF cost.outcome.raised
                THEN [PlacerRaise(cost.func_cache, cost.outcome.value) EXCEPT
                          !.cost_calls = @ \cup {cost_call},
                          !.bus_calls = @ \cup mutated_bus \cup cost_bus]
                ELSE IF good.outcome.raised
                THEN [PlacerRaise(good.func_cache, good.outcome.value) EXCEPT
                          !.cost_calls = @ \cup {cost_call},
                          !.good_enough_calls = @ \cup {good_call},
                          !.bus_calls = @ \cup mutated_bus \cup cost_bus \cup good_bus]
                ELSE [placer EXCEPT
                          !.func_cache = good.func_cache,
                          !.cost_calls = @ \cup {cost_call},
                          !.good_enough_calls = @ \cup {good_call},
                          !.bus_calls = @ \cup mutated_bus \cup cost_bus \cup good_bus,
                          !.seen = @ \cup {candidate_solution},
                          !.i = IF good.outcome.value THEN @ ELSE @ + 1,
                          !.current_solution =
                              IF ~good.outcome.value /\ accept_solution
                              THEN <<candidate_solution>> ELSE @,
                          !.best_solution =
                              IF ~good.outcome.value /\ (best_unset \/ candidate_cost < best_cost)
                              THEN <<candidate_solution>> ELSE @,
                          !.result = IF good.outcome.value THEN "returned" ELSE @,
                          !.value = IF good.outcome.value THEN candidate_solution ELSE @]
    /\ UNCHANGED <<problem, pc, bfsVars, iddfsVars, routerVars, sa, routing, orders, cache>>

\* After the last round: return best_solution.
PlacerFinish ==
    /\ pc = "placer"
    /\ placer.result = "running"
    /\ placer.i = problem.total_rounds
    /\ placer' = [placer EXCEPT !.result = "returned", !.value = placer.best_solution[1]]
    /\ UNCHANGED <<problem, pc, bfsVars, iddfsVars, routerVars, sa, routing, orders, cache>>

PlacerNext == PlacerRound \/ PlacerFinish

SpecPlacer == PlacerInit /\ [][PlacerNext]_vars

AboveThreshold(solution) ==
    problem.unbussable_cost[solution] > max_reasonable_unbussed_cost
RouterFails(solution) == problem.route[solution] # "returned"

(***************************************************************************)
(* C13: every call of solution_cost(p) returns 100000 + unbussable_cost(p) *)
(* when unbussable_cost(p) is above the threshold or the router fails on   *)
(* p, and the bussable cost of p otherwise.                                *)
(***************************************************************************)
C13_SolutionCost ==
    placer.phase = "run" =>
        \A call \in placer.cost_calls :
            /\ ~call.outcome.raised
            /\ call.outcome.value =
                IF AboveThreshold(call.solution) \/ RouterFails(call.solution)
                THEN UnbussablePenalty + problem.unbussable_cost[call.solution]
                ELSE problem.bussable_cost[call.solution]

C13_Witness ==
    /\ placer.phase = "run"
    /\ \E call \in placer.cost_calls :
        /\ AboveThreshold(call.solution)
        /\ ~RouterFails(call.solution)
        /\ ~call.outcome.raised
        /\ call.outcome.value = UnbussablePenalty + problem.unbussable_cost[call.solution]
    /\ \E call \in placer.cost_calls :
        /\ ~AboveThreshold(call.solution)
        /\ problem.route[call.solution] = "BussingImpossibleError"
        /\ ~call.outcome.raised
        /\ call.outcome.value = UnbussablePenalty + problem.unbussable_cost[call.solution]

(***************************************************************************)
(* C14: good_enough(p) is true exactly when the router succeeds on p,      *)
(* whatever the cost of p.  Refuted: on a placement whose unbussable cost  *)
(* is within the threshold good_enough raises TypeError (it hands          *)
(* dest_pin_buses a third argument), and above the threshold it is false   *)
(* though the router would succeed.                                        *)
(***************************************************************************)
C14_GoodEnough ==
    placer.phase = "run" =>
        \A call \in placer.good_enough_calls :
            /\ ~call.outcome.raised
            /\ call.outcome.value = ~RouterFails(call.solution)

(***************************************************************************)
(* C15: while a placement is costed, BussingTimeoutError and               *)
(* BussingImpossibleError of the router are absorbed by solution_cost, and *)
(* BussingLogicError escapes it.  Refuted: BussingLogicError is a          *)
(* BussingError and is absorbed like the other two.                        *)
(***************************************************************************)
C15_Propagation ==
    placer.phase = "run" =>
        \A call \in placer.cost_calls :
            ~AboveThreshold(call.solution) =>
                /\ problem.route[call.solution]
                       \in {"BussingTimeoutError", "BussingImpossibleError"}
                   => ~call.outcome.raised
                /\ problem.route[call.solution] = "BussingLogicError"
                   => call.outcome.raised /\ call.outcome.value = "BussingLogicError"

(***************************************************************************)
(* C16: the placement annealing never errors, and what it returns at the   *)
(* end of the rounds is the best placement seen.  Refuted: TimeoutError of *)
(* netlist_random_placement and TypeError of good_enough leave the run.    *)
(***************************************************************************)
C16_NeverErrors ==
    placer.phase = "run" =>
        /\ placer.result # "raised"
        /\ (placer.result = "returned" /\ placer.i = problem.total_rounds) =>
               \A s \in placer.seen :
                   solution_cost(problem, EmptyFunction, placer.value).outcome.value
                       <= solution_cost(problem, EmptyFunction, s).outcome.value

(***************************************************************************)
(* redstone_bussing on the impossibility example of the router's           *)
(* documentation: start (0,0,0), end (2,0,0), no other wires, and the      *)
(* seven obstacle voxels below; the space around them is unbounded.  The   *)
(* step budget max_steps is the caller's.                                  *)
(***************************************************************************)
EnclosureMaxSteps == 24
EnclosureStart == <<0, 0, 0>>
EnclosureEnd == <<2, 0, 0>>
EnclosureObstacles ==
    {<<1, 0, 0>>, <<1, 1, 0>>, <<1, -1, 0>>, <<0, 0, 1>>, <<0, 0, -1>>,
     <<2, 0, 1>>, <<2, 0, -1>>}

EnclosureProblems ==
    {RouterProblem(EnclosureStart, EnclosureEnd, "none", "none", EnclosureObstacles,
                   EmptyBussing, max_steps) : max_steps \in 1..EnclosureMaxSteps}

EnclosureInit ==
    /\ problem \in EnclosureProblems
    /\ pc = "bfs"
    /\ BfsInit
    /\ IddfsInit
    /\ RouterIdle
    /\ SaIdle
    /\ AsmIdle

SpecEnclosure == EnclosureInit /\ [][RouterNext]_vars

EnclosureRun == problem \in EnclosureProblems

\* The wire the router lays under the obstacles.
EnclosureRoute ==
    {<<0, 0, 0>>, <<0, -1, 1>>, <<1, -1, 1>>, <<2, -1, 1>>, <<2, 0, 0>>}

(***************************************************************************)
(* C18 as stated: routing (0,0,0) -> (2,0,0) around the seven obstacles    *)
(* raises BussingImpossibleError.                                          *)
(***************************************************************************)
C18_AsStated ==
    (EnclosureRun /\ pc = "done") => bus_result = "BussingImpossibleError"

(***************************************************************************)
(* C18 as the code has it: the obstacles do not enclose the start, the A*  *)
(* frontier never empties, and the call ends with BussingTimeoutError or   *)
(* returns the wire that descends to y = -1, passes under the obstacles    *)
(* and rises into the end voxel; BussingImpossibleError is never raised.   *)
(***************************************************************************)
C18_NotEnclosed ==
    EnclosureRun =>
        /\ pc = "bfs" => Len(heap) > 0
        /\ pc = "done" =>
            \/ bus_result = "BussingTimeoutError"
            \/ /\ bus_result = "returned"
               /\ element_blocks(ReturnedBussing) = EnclosureRoute

C18_Witness ==
    /\ EnclosureRun
    /\ pc = "done"
    /\ bus_result = "returned"
    /\ element_blocks(ReturnedBussing) = EnclosureRoute
    /\ <<0, 0, 1>> \in ReturnedBussing.airspace_blocks
    /\ ReturnedBussing = [element_sig_strengths |->
                              (<<0, 0, 0>> :> 15) @@ (<<0, -1, 1>> :> 14)
                                  @@ (<<1, -1, 1>> :> 13) @@ (<<2, -1, 1>> :> 12)
                                  @@ (<<2, 0, 0>> :> 11),
                          repeater_directions |-> EmptyFunction,
                          spacer_blocks |-> {},
                          airspace_blocks |-> {<<0, 0, 1>>, <<2, 0, 1>>}]

(***************************************************************************)
(* The partial path of a step of the search tree: the start voxel and the  *)
(* voxels of its actions, in order, and the element and foundation voxels  *)
(* laid before its last action.                                            *)
(***************************************************************************)
PathVoxels(step) ==
    <<problem.start_pos>> \o [i \in 1..Len(step.path) |-> step.path[i].next_pos]
EarlierPlacementBlocks(step) ==
    UNION {{PathVoxels(step)[i], Down(PathVoxels(step)[i])} : i \in 1..Len(step.path)}
NewPlacementBlocks(step) ==
    {step.path[Len(step.path)].next_pos, Down(step.path[Len(step.path)].next_pos)}
ProducedSteps == {heap[i] : i \in 1..Len(heap)}

(***************************************************************************)
(* C19 (COLLISION-1): a step whose new element voxel or foundation voxel   *)
(* coincides with an element or foundation voxel of the partial path it    *)
(* extends, of the other wires, or with an obstacle, produces no           *)
(* successor, unless the new element voxel is the end voxel.  Refuted: the *)
(* search keeps only the last two elements of the partial path, and a step *)
(* onto an older voxel of the path produces a successor.                   *)
(***************************************************************************)
C19_Collision1 ==
    (problem.kind = "router" /\ pc = "bfs") =>
        \A step \in ProducedSteps :
            (/\ Len(step.path) > 0
             /\ step.path[Len(step.path)].next_pos # problem.end_pos
             /\ NewPlacementBlocks(step)
                    \cap (EarlierPlacementBlocks(step)
                          \cup element_foundation_blocks(problem.other_buses)
                          \cup problem.instance_points) # {})
            => step.state.none

(***************************************************************************)
(* A second wire routed next to the one of the example above: the wire     *)
(* redstone_bussing returned there is the other_buses of this call; its    *)
(* airspace lies over its descent and under its rise.  The search reaches  *)
(* no repeater there within the step budget; it does in the closed boxes   *)
(* of BoxProblems, which are routed here as well.                          *)
(***************************************************************************)
SecondWireMaxSteps == 20
EnclosureBus ==
    [element_sig_strengths |->
         (<<0, 0, 0>> :> 15) @@ (<<0, -1, 1>> :> 14) @@ (<<1, -1, 1>> :> 13)
             @@ (<<2, -1, 1>> :> 12) @@ (<<2, 0, 0>> :> 11),
     repeater_directions |-> EmptyFunction,
     spacer_blocks |-> {},
     airspace_blocks |-> {<<0, 0, 1>>, <<2, 0, 1>>}]
SecondWireStarts == {<<-1, 0, 2>>, <<1, 0, 2>>, <<0, 0, 3>>}
SecondWireEnds == {<<-1, 0, -1>>, <<3, 0, 2>>, <<1, -3, 2>>}

SecondWireProblems ==
    {RouterProblem(s, e, "none", "none", EnclosureObstacles, EnclosureBus,
                   SecondWireMaxSteps) :
        s \in SecondWireStarts, e \in SecondWireEnds}

SecondWireInit ==
    /\ problem \in SecondWireProblems \cup BoxProblems
    /\ pc = "bfs"
    /\ BfsInit
    /\ IddfsInit
    /\ RouterIdle
    /\ SaIdle
    /\ AsmIdle

SpecSecondWire == SecondWireInit /\ [][RouterNext]_vars

\* The airspace of the whole partial path of a step of the search tree.
PathAirspace(step) ==
    UNION {new_airspace_blocks(PathVoxels(step)[i], step.path[i]) : i \in 1..Len(step.path)}

\* The steps the search derives next: those out of the head of its heap.
DerivedSteps ==
    IF pc = "bfs" /\ Len(heap) > 0 /\ ~HeapPop(heap).item.state.none
    THEN LET next == NextSteps(problem, HeapPop(heap).item)
         IN  {[from |-> HeapPop(heap).item, to |-> next[i]] : i \in 1..Len(next)}
    ELSE {}
SpacersAdded(d) ==
    new_spacer_blocks(d.from.state.current_bussing, problem.other_buses,
                      d.from.state.current_position, d.to.path[Len(d.to.path)])

(***************************************************************************)
(* C20 (COLLISION-2): a step that adds a spacer voxel coinciding with an   *)
(* airspace voxel of the path being routed (the step's own airspace        *)
(* included) or of the other wires produces no successor.                  *)
(***************************************************************************)
C20_Collision2 ==
    problem.kind = "router" =>
        \A d \in DerivedSteps :
            (SpacersAdded(d) \cap (PathAirspace(d.to) \cup problem.other_buses.airspace_blocks)) # {}
                => d.to.state.none

\* A wire stepping down from a repeater onto free voxels: the spacer over
\* it is its own airspace, and [COLLISION 2] alone rejects it.
C20_Witness ==
    /\ problem.kind = "router"
    /\ \E d \in DerivedSteps :
        LET action == d.to.path[Len(d.to.path)]
            self == d.from.state.current_bussing
        IN  /\ d.from.state.current_position \in DOMAIN self.repeater_directions
            /\ ~action.is_repeater
            /\ action.next_pos[2] < d.from.state.current_position[2]
            /\ Up(action.next_pos) \in SpacersAdded(d) \cap PathAirspace(d.to)
            /\ {action.next_pos, Down(action.next_pos)}
                   \cap preexisting_placement_blocks(self, problem.other_buses,
                                                     problem.instance_points) = {}
            /\ d.to.state.none

(***************************************************************************)
(* The same walk in free space: no obstacles, no other wires, from         *)
(* (0,0,0) towards a far end voxel, over the full history as the verifying *)
(* replay keeps it and over the truncated history of the search.           *)
(***************************************************************************)
FreeWalkSteps == 2
FreeWalkEnd == <<4, 0, 0>>

FreeWalkProblems ==
    {[RouterProblem(zero_pos, FreeWalkEnd, "none", "none", {}, EmptyBussing, FreeWalkSteps)
         EXCEPT !.truncate_history = truncated] : truncated \in BOOLEAN}

FreeWalkInit ==
    /\ problem \in FreeWalkProblems
    /\ pc = "walk"
    /\ SearchIdle
    /\ replay_state = NoneState
    /\ replay_index = 0
    /\ bus_result = "none"
    /\ walk = [state |-> RouterInitialState(problem), cost |-> 0,
               trail |-> <<Visit(RouterInitialState(problem), 0)>>]
    /\ SaIdle
    /\ AsmIdle

SpecFreeWalk == FreeWalkInit /\ [][WalkNext]_vars

FreeWalk == pc = "walk" /\ problem \in FreeWalkProblems
WalkActions == Range(RouterStateActions(problem, walk.state))
WalkAtRepeater ==
    walk.state.current_position \in repeater_blocks(walk.state.current_bussing)
Descends(action) == action.next_pos[2] = walk.state.current_position[2] - 1

(***************************************************************************)
(* C21 (CONNECTIVITY-2): in free space a step that follows a repeater and  *)
(* descends by one in Y is accepted, and the bussing it yields has the     *)
(* spacer (new voxel + up).  Refuted: the spacer is put on the voxel that  *)
(* the same step makes airspace, and [COLLISION 2] rejects the step.       *)
(***************************************************************************)
C21_SpacerOverDrop ==
    (FreeWalk /\ WalkAtRepeater) =>
        \A action \in WalkActions :
            (/\ Descends(action)
             /\ {action.next_pos, Down(action.next_pos)}
                    \cap element_foundation_blocks(walk.state.current_bussing) = {})
            => LET next == RouterStateActionResult(problem, walk.state, action)
               IN  /\ ~next.none
                   /\ Up(action.next_pos) \in next.current_bussing.spacer_blocks

(***************************************************************************)
(* C22: state_actions offers no wire step with dy = -1 from a state whose  *)
(* current voxel stands on a transparent foundation: (current voxel +      *)
(* down) is an airspace voxel of the path or of the other wires.  Refuted: *)
(* state_actions looks the current voxel itself up among the transparent   *)
(* foundations, not the voxel below it.                                    *)
(***************************************************************************)
C22_NoDescentOnTransparent ==
    (FreeWalk /\ ~problem.truncate_history
     /\ Down(walk.state.current_position)
            \in walk.state.current_bussing.airspace_blocks \cup problem.other_buses.airspace_blocks)
    => \A action \in WalkActions : ~(~action.is_repeater /\ Descends(action))

(***************************************************************************)
(* The passes of a_star_iddfs_searched_solution as the calls of            *)
(* subtree_solution_should_continue they made.                             *)
(***************************************************************************)
IddfsRun == problem.kind = "graph" /\ Len(iddfs_passes) > 0
PassCalls(i) == Range(iddfs_passes[i].calls)
OverCapMinCosts(i) ==
    {c.min_cost : c \in {d \in PassCalls(i) : ~d.pruned /\ d.min_cost > d.max_cost}}

(***************************************************************************)
(* C23: the cost cap of the first pass is 1; after a pass that exhausts    *)
(* without a goal the cap becomes the least min_cost among the steps that  *)
(* exceeded the cap in that pass; the caps increase strictly.  Refuted:    *)
(* the cap becomes max(max_cost + 1, min_cost), which is above the least   *)
(* over-cap min_cost when that lies less than 1 above the cap.             *)
(***************************************************************************)
C23_CapSchedule ==
    IddfsRun =>
        /\ iddfs_passes[1].max_cost = CostUnit * InitialMaxCost
        /\ \A i \in 1..(Len(iddfs_passes) - 1) :
            /\ iddfs_passes[i + 1].max_cost = SetMin(OverCapMinCosts(i))
            /\ iddfs_passes[i + 1].max_cost > iddfs_passes[i].max_cost

AllCalls == UNION {PassCalls(i) : i \in 1..Len(iddfs_passes)}

(***************************************************************************)
(* C24 as stated: the search remembers the best cumulative cost seen at    *)
(* each state across passes and prunes every re-entry whose cumulative     *)
(* cost is not strictly better than the remembered one.                    *)
(***************************************************************************)
C24_AsStated ==
    IddfsRun =>
        \A c \in AllCalls : c.cost >= c.prev_min_cost => c.pruned

(***************************************************************************)
(* C24 as the code has it: state_min_cost holds, over all passes, the      *)
(* least cumulative cost a state was entered with, and a re-entry is       *)
(* pruned exactly when its cumulative cost is strictly worse than that; a  *)
(* re-entry at the remembered cost goes on, as the root does in every pass *)
(* after the first.                                                        *)
(***************************************************************************)
C24_Pruning ==
    IddfsRun =>
        /\ \A c \in AllCalls : c.pruned = (c.cost > c.prev_min_cost)
        /\ DOMAIN state_min_cost = {c.state : c \in AllCalls}
        /\ \A s \in DOMAIN state_min_cost :
               state_min_cost[s] = SetMin({c.cost : c \in {d \in AllCalls : d.state = s}})

C24_Witness ==
    /\ IddfsRun
    /\ Len(iddfs_passes) >= 2
    /\ \E c \in PassCalls(2) :
           c.state # 0 /\ c.cost = c.prev_min_cost /\ ~c.pruned
    /\ \E c \in AllCalls : c.cost > c.prev_min_cost /\ c.pruned

(***************************************************************************)
(* C25: among frontier entries of equal priority (min_cost) the best-first *)
(* search expands the one first that is least in (-cost, state, action),   *)
(* so the entry with the larger cumulative cost.  Refuted: Step compares   *)
(* by min_cost alone, and among equal entries heapq hands out the one      *)
(* pushed first; fully_order_steps of the tests patches the comparisons of *)
(* AlgoTraceStep, which the heap never holds.                              *)
(***************************************************************************)
C25_TieOrder ==
    (problem.kind = "graph" /\ pc = "bfs" /\ Len(heap) > 0 /\ remaining_steps > 0) =>
        LET step == HeapPop(heap).item
        IN  (step.state \notin explored_states /\ ~IsGoalState(problem, step.state)) =>
                \A i \in 1..Len(heap) :
                    (/\ heap[i].min_cost = step.min_cost
                     /\ heap[i].state \notin explored_states \cup {step.state})
                    => heap[i].cost <= step.cost

(***************************************************************************)
(* C26: a run over T rounds with R restarts that good_enough does not cut  *)
(* short calls random_solution() R times, at the first round of each of R  *)
(* equal segments, and mutated_solution(current) in every other round.     *)
(* Refuted when R does not divide T: the segments are T // R rounds long   *)
(* and there are more than R of them (T = 3, R = 2: three calls).          *)
(***************************************************************************)
C26_RestartCalls ==
    (AnnealingReturned /\ ~sa.early) =>
        /\ sa.random_calls = problem.restarts
        /\ sa.mutated_calls = problem.total_rounds - problem.restarts

(***************************************************************************)
(* C27: after every completed round the tracked best cost is the least     *)
(* cost among all candidates evaluated so far, in any segment, and the     *)
(* tracked best solution has that cost; also after rounds whose candidate  *)
(* was rejected.                                                           *)
(***************************************************************************)
C27_BestTracked ==
    (pc = "anneal" /\ sa.i > 0) =>
        /\ sa.best_solution # <<>>
        /\ CostOf(problem, sa.best_solution) \in sa.evaluated_costs
        /\ \A c \in sa.evaluated_costs : CostOf(problem, sa.best_solution) <= c

\* Two segments begun, and a candidate evaluated in a completed round that
\* was never accepted: the best is still the least cost evaluated.
C27_Witness ==
    /\ pc = "anneal"
    /\ sa.random_calls >= 2
    /\ sa.evaluated_costs \ sa.accepted_costs # {}
    /\ \A c \in sa.evaluated_costs : CostOf(problem, sa.best_solution) <= c

(***************************************************************************)
(* C28: within a placer run the route of a placement is computed at most   *)
(* once: solution_cost, good_enough and the following mutated_solution     *)
(* call on the same placement all obtain one cached routing result, value  *)
(* or failure, and only the first of them invokes the function.            *)
(***************************************************************************)
C28_OneCachedRoute ==
    \A a \in placer.bus_calls, b \in placer.bus_calls :
        a.solution = b.solution =>
            /\ a.outcome = b.outcome
            /\ (a.invoked /\ b.invoked) => a = b

(***************************************************************************)
(* mutated_placement: the mutation of an instance placement.  A placement  *)
(* maps instance ids to (pos, direction).                                  *)
(***************************************************************************)
MaxInstances == 3

\* direction_unit_poses = list(direction_unit_pos.values())
direction_unit_poses == [i \in DOMAIN directions |-> direction_unit_pos(directions[i])]

MutationPlacements ==
    {[instance_id \in 1..n |->
        <<<<instance_id, 0, 0>>, xz_directions[1 + (instance_id % Len(xz_directions))]>>] :
     n \in 0..MaxInstances}

MutationProblems == {[kind |-> "mutation", placement |-> pl] : pl \in MutationPlacements}

\* mutated_individual_placement: reassign is random() < 0.1, direction and
\* unit_pos are the two choice() results.
mutated_individual_placement(placement, reassign, direction, unit_pos) ==
    <<PosAdd(placement[1], unit_pos), IF reassign THEN direction ELSE placement[2]>>

\* sample(population, k) raises ValueError when k exceeds the population.
SampleFails(population, k) == k > Cardinality(population)
Samples(population, k) == {S \in SUBSET population : Cardinality(S) = k}

instances_to_tweak_count(placement) == Max(Cardinality(DOMAIN placement) \div 3, 2)

MutationInit ==
    /\ problem \in MutationProblems
    /\ pc = "mutate"
    /\ SearchIdle
    /\ RouterIdle
    /\ SaIdle
    /\ routing = [phase |-> "idle"]
    /\ orders = [phase |-> "idle"]
    /\ cache = [phase |-> "idle"]
    /\ placer = [phase |-> "mutate", raised |-> FALSE, instances_to_tweak |-> {},
                 swapped |-> {}, tweaked_placement |-> EmptyFunction]

\* mutated_placement(placement).
MutatedPlacement ==
    /\ pc = "mutate"
    /\ LET placement == problem.placement
           ids == DOMAIN placement
           k == instances_to_tweak_count(placement)
       IN  IF SampleFails(ids, k)
           THEN placer' = [placer EXCEPT !.phase = "ValueError", !.raised = TRUE]
           ELSE \E instances_to_tweak \in Samples(ids, k) :
                \E reassign \in [instances_to_tweak -> BOOLEAN],
                   direction \in [instances_to_tweak -> DOMAIN xz_directions],
                   unit \in [instances_to_tweak -> DOMAIN direction_unit_poses],
                   swap \in BOOLEAN, first_instance_id \in ids, second_instance_id \in ids :
                    LET tweaked ==
                            [instance_id \in ids |->
                                IF instance_id \in instances_to_tweak
                                THEN mutated_individual_placement(
                                         placement[instance_id], reassign[instance_id],
                                         xz_directions[direction[instance_id]],
                                         direction_unit_poses[unit[instance_id]])
                                ELSE placement[instance_id]]
                        swapping == Cardinality(ids) > 1 /\ swap
                    IN  /\ first_instance_id # second_instance_id
                        /\ placer' =
                            [phase |-> "returned", raised |-> FALSE,
                             instances_to_tweak |-> instances_to_tweak,
                             swapped |->
                                 IF swapping THEN {first_instance_id, second_instance_id}
                                 ELSE {},
                             tweaked_placement |->
                                 IF swapping
                                 THEN [tweaked EXCEPT
                                           ![first_instance_id] = tweaked[second_instance_id],
                                           ![second_instance_id] = tweaked[first_instance_id]]
                                 ELSE tweaked]
    /\ pc' = "done"
    /\ UNCHANGED <<problem, bfsVars, iddfsVars, routerVars, sa, routing, orders, cache>>

SpecMutation == MutationInit /\ [][MutatedPlacement]_vars

MutationDone == pc = "done" /\ problem.kind = "mutation"

\* The instance as it stood before the final swap exchanged it.
BeforeSwap(instance_id) ==
    IF instance_id \in placer.swapped
    THEN CHOOSE other \in placer.swapped : other # instance_id
    ELSE instance_id

(***************************************************************************)
(* C29: for any placement with n instances, mutated_placement returns a    *)
(* placement over the same instance ids in which exactly max(n / 3, 2)     *)
(* distinct picked instances have each been moved by one unit direction    *)
(* vector, their direction possibly reassigned to an XZ direction, and     *)
(* every other instance keeps its (pos, direction) unless it is one of the *)
(* two instances exchanged by the final swap.                              *)
(***************************************************************************)
C29_MutatedPlacement ==
    MutationDone =>
        LET placement == problem.placement
            n == Cardinality(DOMAIN placement)
            result == placer.tweaked_placement
        IN  /\ ~placer.raised
            /\ DOMAIN result = DOMAIN placement
            /\ Cardinality(placer.instances_to_tweak) = Max(n \div 3, 2)
            /\ \A instance_id \in DOMAIN placement :
                LET before == placement[BeforeSwap(instance_id)]
                    after == result[instance_id]
                IN  IF BeforeSwap(instance_id) \in placer.instances_to_tweak
                    THEN /\ PosSub(after[1], before[1]) \in Range(direction_unit_poses)
                         /\ after[2] = before[2] \/ after[2] \in Range(xz_directions)
                    ELSE after = before

(***************************************************************************)
(* The walk over the full history in a closed box two voxels wide: every   *)
(* state holds the whole WirePath walked so far, and each step is tried on *)
(* it and on its truncation.                                               *)
(***************************************************************************)
HistorySteps == 4
HistoryLo == <<0, 0, 0>>
HistoryHi == <<1, 1, 1>>

HistoryProblems ==
    {[RouterProblem(HistoryLo, e, "none", "none", BoxWalls(HistoryLo, HistoryHi),
                    EmptyBussing, HistorySteps)
         EXCEPT !.truncate_history = FALSE] :
        e \in {HistoryHi, <<0, 1, 0>>}}

HistoryInit ==
    /\ problem \in HistoryProblems
    /\ pc = "walk"
    /\ SearchIdle
    /\ replay_state = NoneState
    /\ replay_index = 0
    /\ bus_result = "none"
    /\ walk = [state |-> RouterInitialState(problem), cost |-> 0,
               trail |-> <<Visit(RouterInitialState(problem), 0)>>]
    /\ SaIdle
    /\ AsmIdle

SpecHistory == HistoryInit /\ [][WalkNext]_vars

HistoryWalk == pc = "walk" /\ problem \in HistoryProblems

\* The state of the walk with its WirePath truncated to the current voxel
\* and a previous one.
TruncatedState(previous_pos) ==
    PartialBus(walk.state.current_position,
               with_truncated_history(walk.state.current_bussing,
                                      walk.state.current_position, previous_pos),
               walk.state.momentum_xz_dir, walk.state.momentum_y_dir)

\* The steps either search may try next: those next_steps offers on the
\* full history and those it offers on the truncated one.
HistoryActions(previous_pos) ==
    Range(RouterStateActions(problem, walk.state))
        \cup Range(RouterStateActions(problem, TruncatedState(previous_pos)))

AcceptedOn(bussing, action) ==
    ~add_step(bussing, problem.other_buses, problem.instance_points,
              walk.state.current_position, problem.end_pos, action).none

(***************************************************************************)
(* C30: history truncation only relaxes the step constraints: for every    *)
(* reachable router state and every step, if add_step accepts the step on  *)
(* the full-history WirePath, it accepts the same step on the WirePath     *)
(* truncated to the current and previous element voxels.                   *)
(***************************************************************************)
C30_TruncationRelaxes ==
    HistoryWalk =>
        \A previous_pos \in element_blocks(walk.state.current_bussing) :
            \A action \in HistoryActions(previous_pos) :
                AcceptedOn(walk.state.current_bussing, action)
                    => AcceptedOn(TruncatedState(previous_pos).current_bussing, action)

\* Three steps or more walked, an ascent among them; one step is accepted
\* on both histories, another only on the truncated one.
C30_Witness ==
    /\ HistoryWalk
    /\ Len(walk.trail) > 3
    /\ walk.state.current_bussing.airspace_blocks # {}
    /\ \E previous_pos \in element_blocks(walk.state.current_bussing) \ {walk.state.current_position} :
        LET truncated == TruncatedState(previous_pos).current_bussing
        IN  /\ truncated # walk.state.current_bussing
            /\ \E action \in HistoryActions(previous_pos) :
                /\ AcceptedOn(walk.state.current_bussing, action)
                /\ AcceptedOn(truncated, action)
            /\ \E action \in HistoryActions(previous_pos) :
                /\ ~AcceptedOn(walk.state.current_bussing, action)
                /\ AcceptedOn(truncated, action)

(***************************************************************************)
(* The whole development: any of the problems above, run by its caller.    *)
(***************************************************************************)
Init == SearchInit \/ RouterInit \/ WalkInit \/ AnnealingInit \/ BussingInit \/ OrderInit \/ CacheInit
    \/ PlacerInit \/ EnclosureInit \/ SecondWireInit
    \/ FreeWalkInit \/ MutationInit \/ HistoryInit

Next ==
    \/ BfsIteration
    \/ BfsExhausted
    \/ IddfsPass
    \/ RedstoneBussingFinish
    \/ WalkStep
    \/ AnnealingRound
    \/ AnnealingFinish
    \/ DestPinBusesCall
    \/ DestPinBusesStore
    \/ DestPinBusesReturn
    \/ SourceDestPairsStep
    \/ FirstIdCachedCall
    \/ PlacerRound
    \/ PlacerFinish
    \/ MutatedPlacement

Spec == Init /\ [][Next]_vars

====
